---------------------------- MODULE Spec2Model ----------------------------
(***************************************************************************)
(* CppAwait: stackful coroutines (Coro), the master-coro chain, awaitables *)
(* with their completers, startAsync, await / awaitAny and the scheduler's *)
(* cancellable tickets.                                                    *)
(*                                                                         *)
(* The program is single threaded.  Every coroutine owns a stack of        *)
(* frames (the C++ calls it is inside of); only the frame on top of the    *)
(* stack of sCurrentCoro runs.  A call that transfers control (yieldTo)    *)
(* leaves its frame at pc "yielded" and a later action continues it.       *)
(* A failed ut_assert_ (debug build) stops the program: aborted # "".      *)
(***************************************************************************)
EXTENDS Integers, Sequences, FiniteSets, TLC

\* ------------------------------------------------------------------ bounds
\* awaitables created by Awaitable(tag) on the host loop
MaxAwt == 2
\* awaitables created by startAsync (each has a bound coro)
MaxCoro == 2
\* slots connected to done signals, over all awaitables
MaxSlots == 1
\* number of elements of a collection passed to awaitAny
MaxAny == 2
\* awaitables alive at the same time
MaxLive == 3
\* actions handed to scheduleWithTicket
MaxSched == 3
\* distinct non-null value pointers user code yields
MaxVal == 2
\* forceUnwind calls made on one coro
MaxUnwind == 1
\* stacks the allocator hands out in one run
MaxStacks == 4
\* Coro objects made with Coro(tag, stackSize) that exist at one time
MaxPoolCoro == 3
\* the largest stack size asked for
MaxStackSize == 3
\* boost::coroutines::stack_traits::minimum_size() of the platform
MinimumStackSize == 2
\* slots connected to the signal in one run
MaxHooks == 3
\* emissions of the signal in one run
MaxEmit == 3
\* awaitables handed out by Condition::asyncWait and by the BoundedQueue in one run
MaxWait == 3
\* the largest maxSize a BoundedQueue is constructed with
MaxQueueSize == 2
\* idle actions posted in one run
MaxIdle == 3

\* ------------------------------------------------------------- identities
Null == 0
PlainIds == 1..MaxAwt
CoroAwtIds == (MaxAwt + 1)..(MaxAwt + MaxCoro)
MainCoro == MaxAwt + MaxCoro + 1
\* awaitables made inside the library (Condition::asyncWait, Awaitable::makeCompleted)
WaitIds == (MainCoro + 1)..(MainCoro + MaxWait)
AwtIds == (1..(MaxAwt + MaxCoro)) \cup WaitIds
CoroIds == CoroAwtIds \cup {MainCoro}
\* the exception the host fails awaitables with, the exception coroutine bodies
\* throw, and the two library sentinels
HostExc == "E1"
BodyExc == "E2"
ForcedUnwind == "FU"
YieldForbidden == "YF"
NoExc == "none"

VARIABLES
    coro,              \* Coro::Impl of every coro, with its C++ call stack
    awt,               \* AwaitableImpl of every awaitable
    sCurrentCoro,      \* Coro.cpp sCurrentCoro
    sMasterCoroChain,  \* Coro.cpp sMasterCoroChain
    aborted,           \* "" or the assertion that stopped the program
    lastOp,            \* history: what the last step did and what it returned
    schedQueue,        \* host loop: the WeakActions enqueued through the schedule hook
    cell,              \* the shared Action made by each scheduleWithTicket call
    ticket,            \* Ticket::mAction of every Ticket variable of user code
    running,           \* the action WeakAction::operator() has locked and is running
    hist,              \* history of every action: runs, dropped while pending, dispatched
    seq,               \* YieldSequence::Impl of every sequence (its coro is in coro)
    pool,              \* Coro.cpp sPool, the stacks it handed out and the Coro objects holding them
    sig,               \* a Signal: its hooks, the emission in progress, and what user code saw
    cond,              \* the Condition objects: mWaiters and mLastWaiterId of each
    queue,             \* a BoundedQueue: mMaxSize, mQueue and the done-callbacks it connected
    idle               \* Coro.cpp sIdleActions and sIsRunningIdleActions

coreVars == <<coro, awt, sCurrentCoro, sMasterCoroChain, aborted, lastOp>>
schedVars == <<schedQueue, cell, ticket, running, hist>>
libVars == <<seq, pool, sig, cond, queue, idle>>
\* what the operations on one library object leave alone
otherThanSeq == <<schedVars, pool, sig, cond, queue, idle>>
otherThanPool == <<coro, awt, sCurrentCoro, sMasterCoroChain, aborted, schedVars, seq, sig,
                   cond, queue, idle>>
otherThanSig == <<coro, awt, sCurrentCoro, sMasterCoroChain, schedVars, seq, pool, cond, queue,
                  idle>>
otherThanCond == <<schedVars, seq, pool, sig, idle>>
vars == <<coro, awt, sCurrentCoro, sMasterCoroChain, aborted, lastOp,
          schedQueue, cell, ticket, running, hist, seq, pool, sig, cond, queue, idle>>

\* stack buffers the allocator hands out, in allocation order
StackIds == 1..MaxStacks
\* the Coro objects user code makes with Coro(tag, stackSize)
PoolCoros == 1..MaxPoolCoro
\* stack sizes user code asks for
StackSizes == 1..MaxStackSize

\* ------------------------------------------------------------------ frames
Frame(k, pc, a) ==
    [k |-> k, pc |-> pc, a |-> a, e |-> NoExc, s |-> <<>>, p |-> Null, n |-> 0, v |-> ""]

NoRecv == [type |-> "none", exc |-> NoExc, val |-> Null]

\* history record written by every step: the operation, the coro that ran it,
\* the awaitable, how the call came out and what it returned or raised
LO(op, c, a, out) ==
    [op |-> op, c |-> c, a |-> a, out |-> out, e |-> NoExc, pos |-> 0, s |-> <<>>,
     w |-> Null, pre |-> "", v |-> ""]

NoOp == LO("init", Null, Null, "")

\* a step of user code that no property looks back at
Quiet == LO("step", Null, Null, "")

Top(c) == coro[c].stack[Len(coro[c].stack)]
Pop(stk) == SubSeq(stk, 1, Len(stk) - 1)
SetTop(stk, f) == [stk EXCEPT ![Len(stk)] = f]

NoCoro ==
    [st |-> "none", isRunning |-> FALSE, parent |-> Null, stack |-> <<>>,
     recv |-> NoRecv, addr |-> Null, fu |-> 0, entered |-> 0,
     exitWith |-> "?"]

NoAwt ==
    [st |-> "none", owner |-> Null, boundCoro |-> Null, awaitingCoro |-> Null,
     didComplete |-> FALSE, exceptionPtr |-> NoExc, completerGuard |-> 0,
     gen |-> 0, late |-> 0, nslots |-> 0, cbRuns |-> 0, cbOk |-> TRUE]

\* Condition: the waiters (id and Completer handle of each) and the last id given;
\* reg and done are history: the awaitable of each waiter id, and the ids whose
\* completer a notification invoked, in order
NoCond == [mWaiters |-> <<>>, mLastWaiterId |-> 0, reg |-> <<>>, done |-> <<>>]

\* the Condition objects: one that user code owns, and the two of the BoundedQueue
CondIds == {"cv", "mCondPoppable", "mCondPushable"}

\* BoundedQueue: cb is the done-callback asyncPush / asyncPop connected to the
\* awaitable it returned ("push" with the captured value, "pop", or "none");
\* pushes and got are history: the number of asyncPush calls (the n-th call pushes
\* the value n) and the values written to the outValue of asyncPop calls, in order
NoQueue ==
    [st |-> "none", mMaxSize |-> 0, mQueue |-> <<>>,
     cb |-> [a \in WaitIds |-> [k |-> "none", value |-> 0, ran |-> FALSE]],
     pushes |-> 0, got |-> <<>>]

\* YieldSequence::Impl: currentValue, plus the iterator user code holds ("none":
\* begin() not called, "at": it points into the sequence, "end": it equals end())
\* and whether the generator body ever caught a ForcedUnwind
NoSeq == [st |-> "none", currentValue |-> Null, it |-> "none", swallowed |-> FALSE]

\* Signal::Hook: the slot is the hook's number.  flag is the value the shared
\* disconnect flag points to ("signal": the Signal, "null": nullptr), hasFlag
\* tells whether the hook still holds the flag (a connectLite hook never does).
\* user and madeIn are history: what user code did with the slot ("connected",
\* "disconnected" through its connection, "canceled" by disconnectAll or by
\* ~Signal), and the number of the emission during which it was connected
\* (0: outside emissions)
NoHook ==
    [st |-> "none", hasFlag |-> FALSE, flag |-> "null", isCanceled |-> FALSE,
     user |-> "none", madeIn |-> 0]

\* the emitSignal call in progress: loop index i (from 1), n, the local
\* isEmitting that mIsEmitting points to, and the hook whose slot is running
NoEmit == [on |-> FALSE, i |-> 0, n |-> 0, isEmitting |-> FALSE, slot |-> 0]

\* a Signal after its constructor.  emitNo and calls are history: the number of
\* emissions started and the slots invoked by the last one, in order
NoSig ==
    [st |-> "alive", mHooks |-> <<>>, mHooksToAdd |-> <<>>, mNumCanceled |-> 0,
     mIsEmitting |-> FALSE, hook |-> [h \in 1..MaxHooks |-> NoHook],
     frame |-> NoEmit, emitNo |-> 0, calls |-> <<>>]

\* --------------------------------------------------------------- accessors
didComplete(a) == awt[a].didComplete
didFail(a) == awt[a].exceptionPtr # NoExc
isDone(a) == didComplete(a) \/ didFail(a)

mainCoro == sMasterCoroChain[1]
masterCoro == sMasterCoroChain[Len(sMasterCoroChain)]

\* --------------------------------------------------------------------- Init
Init ==
    /\ coro = [c \in CoroIds |->
                 IF c = MainCoro
                 THEN [NoCoro EXCEPT !.st = "alive", !.isRunning = TRUE, !.addr = MainCoro,
                                     !.stack = <<Frame("loop", "run", Null)>>]
                 ELSE NoCoro]
    /\ awt = [a \in AwtIds |-> NoAwt]
    /\ sCurrentCoro = MainCoro
    /\ sMasterCoroChain = <<MainCoro>>
    /\ aborted = ""
    /\ lastOp = NoOp
    /\ schedQueue = <<>>
    /\ cell = [i \in 1..MaxSched |-> "none"]
    /\ ticket = [i \in 1..MaxSched |-> Null]
    /\ running = Null
    /\ hist = [i \in 1..MaxSched |-> [runs |-> 0, dropped |-> FALSE, dispatched |-> FALSE]]
    /\ seq = [b \in CoroAwtIds |-> NoSeq]
    /\ pool = [mStacks |-> <<>>,
               size |-> [x \in StackIds |-> 0],
               st |-> [x \in StackIds |-> "none"],
               stack |-> [k \in PoolCoros |-> Null],
               req |-> [k \in PoolCoros |-> 0],
               recycledFor |-> 0]
    /\ sig = NoSig
    /\ cond = [k \in CondIds |-> NoCond]
    /\ queue = NoQueue
    /\ idle = [sIdleActions |-> <<>>, sIsRunningIdleActions |-> FALSE, posted |-> 0,
               ran |-> <<>>, threw |-> FALSE, sender |-> Null, stale |-> FALSE]

\* the frame of user code (host loop or coroutine body) that is running
UserAt(c) ==
    /\ aborted = ""
    /\ sCurrentCoro = c
    /\ coro[c].stack # <<>>
    /\ Top(c).k \in {"loop", "body"}
    /\ Top(c).pc = "run"

Abort(label, op) ==
    /\ aborted' = label
    /\ lastOp' = LO(op, sCurrentCoro, Null, "abort")
    /\ UNCHANGED <<coro, awt, sCurrentCoro, sMasterCoroChain>>

\* ------------------------------------------------------- coroutine transfer
\* A pointer to a destroyed Coro is dangling: the call either crashes (Null) or
\* reaches the coro that was allocated at the same address afterwards.
Resolve(t) ==
    IF t = Null THEN {Null}
    ELSE IF coro[t].st = "deleted"
         THEN {Null} \cup {c \in CoroAwtIds : coro[c].st = "alive" /\ coro[c].addr = coro[t].addr}
         ELSE {t}

\* the assertions at the head of Coro::implYieldTo
YieldCheck(t, r, cor) ==
    IF t # Null /\ coro[t].st = "deleted" /\ r = Null THEN "crash: yield to a destroyed coro"
    ELSE IF r = Null THEN "implYieldTo: resumeCoro != nullptr"
    ELSE IF r = sCurrentCoro THEN "implYieldTo: resumeCoro != this"
    ELSE IF ~cor[r].isRunning THEN "implYieldTo: resumeCoro->isRunning()"
    ELSE ""

\* a transfer that loses the value pointer
TransferNoValue(cor, r, type, exc, val) ==
    [cor EXCEPT ![r].recv = [type |-> type, exc |-> exc, val |-> Null],
                ![r].fu = IF exc = ForcedUnwind THEN @ + 1 ELSE @]

\* the payload lands in the resumed coro, which continues from its suspended frame
Transfer(cor, r, type, exc, val) ==
    [cor EXCEPT ![r].recv = [type |-> type, exc |-> exc, val |-> val],
                ![r].fu = IF exc = ForcedUnwind THEN @ + 1 ELSE @]

\* Coro::implYieldTo: cor is the coro table with the caller's frame already left
\* at its suspension point; lo is the history record of the calling step; the
\* payload is a value pointer (val) or an exception (exc).  No idle action is
\* ever posted, so the drain loop after the jump finds sIdleActions empty.
YieldToV(t, type, exc, val, cor, lo) ==
    \E r \in Resolve(t) :
       LET bad == YieldCheck(t, r, cor) IN
       IF bad # ""
       THEN /\ aborted' = bad
            /\ coro' = cor
            /\ sCurrentCoro' = sCurrentCoro
            /\ lastOp' = [lo EXCEPT !.out = "abort"]
       ELSE /\ aborted' = aborted
            /\ coro' = Transfer(cor, r, type, exc, val)
            /\ sCurrentCoro' = r
            /\ lastOp' = [lo EXCEPT !.pos = r]

\* a transfer whose value pointer is nullptr, or that carries an exception
YieldTo(t, type, exc, cor, lo) == YieldToV(t, type, exc, Null, cor, lo)

\* a frame suspended in a yield that has just been given control back
ResumedAt(c, k, pc) ==
    /\ aborted = ""
    /\ sCurrentCoro = c
    /\ coro[c].stack # <<>>
    /\ Top(c).k = k
    /\ Top(c).pc = pc

\* ------------------------------------------------------ master coro chain
\* PushMasterCoro::PushMasterCoro: the value of mPushedCoro
Pushed(c) == IF masterCoro = c THEN Null ELSE c

ChainPush(c) == IF masterCoro = c THEN sMasterCoroChain ELSE Append(sMasterCoroChain, c)

LastIndexOf(chain, p) ==
    IF \E i \in 1..Len(chain) : chain[i] = p
    THEN CHOOSE i \in 1..Len(chain) : chain[i] = p /\ \A j \in (i + 1)..Len(chain) : chain[j] # p
    ELSE 0

ChainPopBack(chain, p) ==
    IF p = Null THEN chain ELSE SubSeq(chain, 1, Len(chain) - 1)

\* PushMasterCoro::~PushMasterCoro: erase the last entry equal to mPushedCoro
ChainPop(chain, p) ==
    IF p = Null THEN chain
    ELSE LET i == LastIndexOf(chain, p) IN
         IF i = 0 THEN chain
         ELSE SubSeq(chain, 1, i - 1) \o SubSeq(chain, i + 1, Len(chain))

ChainPopFails(chain, p) == p # Null /\ LastIndexOf(chain, p) = 0

\* ------------------------------------------------------------- awaitables
Alive == {a \in AwtIds : awt[a].st = "alive"}

\* Awaitable::Awaitable(tag), called on the host loop
NewAwaitable ==
    /\ UNCHANGED <<schedVars, libVars>>
    /\ UserAt(MainCoro)
    /\ Cardinality(Alive) < MaxLive
    /\ \E a \in PlainIds :
         /\ awt[a].st = "none"
         /\ \A b \in PlainIds : b < a => awt[b].st # "none"
         /\ awt' = [awt EXCEPT ![a] = [NoAwt EXCEPT !.st = "alive", !.owner = MainCoro]]
         /\ lastOp' = Quiet
    /\ UNCHANGED <<coro, sCurrentCoro, sMasterCoroChain, aborted>>

\* takeCompleter without its assertion, as in a build with NDEBUG
TakeCompleterUnchecked(a) ==
    /\ UNCHANGED <<schedVars, libVars>>
    /\ UserAt(MainCoro)
    /\ awt[a].st = "alive"
    /\ awt[a].gen < 2
    /\ awt' = [awt EXCEPT ![a].completerGuard = awt[a].gen + 1,
                          ![a].gen = awt[a].gen + 1,
                          ![a].late = IF isDone(a) THEN awt[a].gen + 1 ELSE @]
    /\ lastOp' = LO("takeCompleter", MainCoro, a, "taken")
    /\ UNCHANGED <<coro, sCurrentCoro, sMasterCoroChain, aborted>>

\* Awaitable::takeCompleter
TakeCompleter(a) ==
    /\ UNCHANGED <<schedVars, libVars>>
    /\ UserAt(MainCoro)
    /\ awt[a].st = "alive"
    /\ IF awt[a].completerGuard # 0
       THEN /\ aborted' = "takeCompleter: completer already taken"
            /\ lastOp' = LO("takeCompleter", MainCoro, a, "abort")
            /\ UNCHANGED <<coro, awt, sCurrentCoro, sMasterCoroChain>>
       ELSE /\ awt' = [awt EXCEPT ![a].completerGuard = awt[a].gen + 1,
                                  ![a].gen = awt[a].gen + 1,
                                  ![a].late = IF isDone(a) THEN awt[a].gen + 1 ELSE @]
            /\ lastOp' = LO("takeCompleter", MainCoro, a, "taken")
            /\ UNCHANGED <<coro, sCurrentCoro, sMasterCoroChain, aborted>>

RECURSIVE SumSlots(_)
SumSlots(S) ==
    IF S = {} THEN 0
    ELSE LET a == CHOOSE x \in S : TRUE IN awt[a].nslots + SumSlots(S \ {a})

SlotsConnected == SumSlots(AwtIds)

\* Awaitable::connectToDone
ConnectToDone(a) ==
    /\ UNCHANGED <<schedVars, libVars>>
    /\ UserAt(MainCoro)
    /\ awt[a].st = "alive"
    /\ ~isDone(a)
    /\ SlotsConnected < MaxSlots
    /\ awt' = [awt EXCEPT ![a].nslots = @ + 1]
    /\ lastOp' = Quiet
    /\ UNCHANGED <<coro, sCurrentCoro, sMasterCoroChain, aborted>>

\* Awaitable::complete / fail that forget to drop the completer guard
AwaitableDoneKeepsGuard(aw, cor, a, eptr, via, lo) ==
    /\ IF aw[a].didComplete \/ aw[a].exceptionPtr # NoExc
       THEN /\ aborted' = "Awaitable::complete/fail: already done"
            /\ awt' = aw
            /\ coro' = cor
            /\ lastOp' = [lo EXCEPT !.out = "abort"]
       ELSE /\ aborted' = aborted
            /\ awt' = [aw EXCEPT ![a].didComplete = (eptr = NoExc),
                                 ![a].exceptionPtr = eptr]
            /\ coro' = [cor EXCEPT ![sCurrentCoro].stack =
                          Append(@, [Frame("complete", "emit", a) EXCEPT
                                        !.n = 1, !.e = eptr, !.v = via,
                                        !.p = aw[a].awaitingCoro])]
            /\ lastOp' = lo
    /\ sCurrentCoro' = sCurrentCoro

\* Awaitable::complete (eptr = NoExc) and Awaitable::fail(eptr), up to the emission
\* of the done signal.  aw and cor are the awaitable and coro tables as the caller
\* left them at the call; via names the caller.
AwaitableDone(aw, cor, a, eptr, via, lo) ==
    /\ IF aw[a].didComplete \/ aw[a].exceptionPtr # NoExc
       THEN /\ aborted' = "Awaitable::complete/fail: already done"
            /\ awt' = aw
            /\ coro' = cor
            /\ lastOp' = [lo EXCEPT !.out = "abort"]
       ELSE /\ aborted' = aborted
            /\ awt' = [aw EXCEPT ![a].didComplete = (eptr = NoExc),
                                 ![a].exceptionPtr = eptr,
                                 ![a].completerGuard = 0]
            /\ coro' = [cor EXCEPT ![sCurrentCoro].stack =
                          Append(@, [Frame("complete", "emit", a) EXCEPT
                                        !.n = 1, !.e = eptr, !.v = via,
                                        !.p = aw[a].awaitingCoro])]
            /\ lastOp' = lo
    /\ sCurrentCoro' = sCurrentCoro

\* the Completer handles user code holds: every completer taken from an awaitable
\* is kept, all copies of one being equal
Completers == {h \in AwtIds \X (1..2) : h[2] <= awt[h[1]].gen}

\* a completer that does not look at its guard
NeverExpired(h) == FALSE

\* weak_ptr::expired on Completer::mGuard
Expired(h) == awt[h[1]].st # "alive" \/ awt[h[1]].completerGuard # h[2]

\* Completer::complete (eptr = NoExc) and Completer::fail(eptr), on the host loop
CompleterInvoke(h, eptr) ==
    /\ UNCHANGED <<schedVars, libVars>>
    /\ UserAt(MainCoro)
    /\ h \in Completers
    /\ LET lo == [LO("Completer", MainCoro, h[1], "invoked") EXCEPT
                     !.e = eptr, !.pos = h[2],
                     !.pre = IF awt[h[1]].st # "alive" THEN "destroyed"
                             ELSE IF ~isDone(h[1]) THEN "pending"
                             ELSE IF awt[h[1]].late = h[2] THEN "retaken" ELSE "done"] IN
       IF sCurrentCoro # masterCoro
       THEN Abort("Completer: currentCoro() == masterCoro()", "Completer")
       ELSE IF Expired(h)
       THEN /\ lastOp' = [lo EXCEPT !.out = "noop"]
            /\ UNCHANGED <<coro, awt, sCurrentCoro, sMasterCoroChain, aborted>>
       ELSE /\ AwaitableDone(awt, coro, h[1], eptr, "completer", lo)
            /\ UNCHANGED sMasterCoroChain

\* the done signal invokes the next connected slot; the slot looks at the awaitable
EmitSlot(c) ==
    /\ UNCHANGED <<schedVars, libVars>>
    /\ ResumedAt(c, "complete", "emit")
    /\ LET f == Top(c) IN
       /\ f.n <= awt[f.a].nslots
       /\ awt' = [awt EXCEPT ![f.a].cbRuns = @ + 1,
                             ![f.a].cbOk = @ /\ isDone(f.a)]
       /\ coro' = [coro EXCEPT ![c].stack = SetTop(@, [f EXCEPT !.n = f.n + 1])]
       /\ lastOp' = Quiet
    /\ UNCHANGED <<sCurrentCoro, sMasterCoroChain, aborted>>

\* Awaitable::complete / fail that may transfer to the awaiting coro before the
\* done signal has reached every slot
CompleteFinishEarly(c) ==
    /\ UNCHANGED <<schedVars, libVars>>
    /\ ResumedAt(c, "complete", "emit")
    /\ LET f == Top(c)
           w == awt[f.a].awaitingCoro IN
       /\ IF w = Null
          THEN /\ f.n > awt[f.a].nslots
               /\ coro' = [coro EXCEPT ![c].stack = Pop(@)]
               /\ lastOp' = [LO("Awaitable::done", c, f.a, "returned") EXCEPT !.pre = f.v]
               /\ UNCHANGED <<awt, sCurrentCoro, sMasterCoroChain, aborted>>
          ELSE IF c # masterCoro /\ c # awt[f.a].boundCoro
          THEN Abort("complete/fail: called from wrong coroutine", "Awaitable::done")
          ELSE /\ YieldTo(w, "result", NoExc,
                          [coro EXCEPT ![c].stack =
                              SetTop(@, [f EXCEPT !.pc = "yielded", !.p = w])],
                          [LO("Awaitable::done", c, f.a, "transfer") EXCEPT !.w = w, !.pre = f.v])
               /\ UNCHANGED <<awt, sMasterCoroChain>>

\* Awaitable::complete / fail after the emission: transfer to the awaiting coro
CompleteFinish(c) ==
    /\ UNCHANGED <<schedVars, libVars>>
    /\ ResumedAt(c, "complete", "emit")
    /\ LET f == Top(c)
           w == awt[f.a].awaitingCoro IN
       /\ f.n > awt[f.a].nslots
       /\ IF w = Null
          THEN /\ coro' = [coro EXCEPT ![c].stack = Pop(@)]
               /\ lastOp' = [LO("Awaitable::done", c, f.a, "returned") EXCEPT !.pre = f.v]
               /\ UNCHANGED <<awt, sCurrentCoro, sMasterCoroChain, aborted>>
          ELSE IF c # masterCoro /\ c # awt[f.a].boundCoro
          THEN Abort("complete/fail: called from wrong coroutine", "Awaitable::done")
          ELSE /\ YieldToV(w, "result", NoExc, f.a,
                          [coro EXCEPT ![c].stack =
                              SetTop(@, [f EXCEPT !.pc = "yielded", !.p = w])],
                          [LO("Awaitable::done", c, f.a, "transfer") EXCEPT !.w = w, !.pre = f.v])
               /\ UNCHANGED <<awt, sMasterCoroChain>>

\* the yieldTo inside Awaitable::complete / fail returns: back to the caller
CompleteReturn(c) ==
    /\ UNCHANGED <<schedVars, libVars>>
    /\ ResumedAt(c, "complete", "yielded")
    /\ LET f == Top(c) IN
       IF coro[c].recv.type = "exception"
       THEN Abort("exception escaped from Completer", "Completer")
       ELSE /\ coro' = [coro EXCEPT ![c].stack = Pop(@), ![c].recv = NoRecv]
            /\ lastOp' = [LO("Completer", c, f.a, "returned") EXCEPT
                             !.w = f.p, !.pre = f.v]
            /\ UNCHANGED <<awt, sCurrentCoro, sMasterCoroChain, aborted>>

\* the awaitables a coroutine body can name: the host's and its own
Visible(c) == {a \in AwtIds : awt[a].st = "alive" /\ awt[a].owner \in {MainCoro, c} /\ a # c}

\* user code receives an exception from a call it made
Raise(stk, e) == SetTop(stk, [stk[Len(stk)] EXCEPT !.pc = "exc", !.e = e, !.p = Null])

\* std::rethrow_exception(m->exceptionPtr) in await: user code receives the
\* exception stored in awaitable a
Rethrow(stk, a) ==
    SetTop(stk, [stk[Len(stk)] EXCEPT !.pc = "exc", !.e = awt[a].exceptionPtr, !.p = a])

\* an await without the checks for an awaitable that is already done
AwaitAlwaysSuspends(c, a) ==
    /\ UNCHANGED <<schedVars, libVars>>
    /\ UserAt(c)
    /\ Top(c).k = "body"
    /\ a \in Visible(c)
    /\ LET lo == [LO("await", c, a, "") EXCEPT
                     !.pre = IF didComplete(a) THEN "completed"
                             ELSE IF didFail(a) THEN "failed" ELSE "pending"] IN
       IF c = masterCoro
       THEN Abort("await: currentCoro() != masterCoro()", "await")
       ELSE IF awt[a].awaitingCoro # Null
       THEN Abort("await: awaitingCoro == nullptr", "await")
       ELSE /\ awt' = [awt EXCEPT ![a].awaitingCoro = c]
            /\ YieldTo(masterCoro, "result", NoExc,
                       [coro EXCEPT ![c].stack = Append(@, Frame("await", "yielded", a))],
                       [lo EXCEPT !.out = "suspended"])
            /\ UNCHANGED sMasterCoroChain

\* Awaitable::await
Await(c, a) ==
    /\ UNCHANGED <<schedVars, libVars>>
    /\ UserAt(c)
    /\ Top(c).k = "body"
    /\ a \in Visible(c)
    /\ LET lo == [LO("await", c, a, "") EXCEPT
                     !.pre = IF didComplete(a) THEN "completed"
                             ELSE IF didFail(a) THEN "failed" ELSE "pending"] IN
       IF c = masterCoro
       THEN Abort("await: currentCoro() != masterCoro()", "await")
       ELSE IF awt[a].awaitingCoro # Null
       THEN Abort("await: awaitingCoro == nullptr", "await")
       ELSE IF didComplete(a)
       THEN /\ lastOp' = [lo EXCEPT !.out = "returned"]
            /\ UNCHANGED <<coro, awt, sCurrentCoro, sMasterCoroChain, aborted>>
       ELSE IF didFail(a)
       THEN /\ coro' = [coro EXCEPT ![c].stack = Rethrow(@, a)]
            /\ lastOp' = [lo EXCEPT !.out = "raised", !.e = awt[a].exceptionPtr]
            /\ UNCHANGED <<awt, sCurrentCoro, sMasterCoroChain, aborted>>
       ELSE /\ awt' = [awt EXCEPT ![a].awaitingCoro = c]
            /\ YieldTo(masterCoro, "result", NoExc,
                       [coro EXCEPT ![c].stack = Append(@, Frame("await", "yielded", a))],
                       [lo EXCEPT !.out = "suspended"])
            /\ UNCHANGED sMasterCoroChain

\* an await that leaves its registration in place after it was resumed
AwaitResumeKeepsAwaiter(c) ==
    /\ UNCHANGED <<schedVars, libVars>>
    /\ ResumedAt(c, "await", "yielded")
    /\ LET f == Top(c)
           a == f.a
           r == coro[c].recv
           lo == LO("awaitResume", c, a, "") IN
       IF r.type = "exception"
       THEN /\ coro' = [coro EXCEPT ![c].stack = Raise(Pop(@), r.exc), ![c].recv = NoRecv]
            /\ lastOp' = [lo EXCEPT !.out = "unwound", !.e = r.exc]
            /\ UNCHANGED <<awt, sCurrentCoro, sMasterCoroChain, aborted>>
       ELSE IF awt[a].st # "alive"
       THEN Abort("crash: await resumed on a destroyed awaitable", "awaitResume")
       ELSE IF ~isDone(a)
       THEN Abort("await: isDone()", "awaitResume")
       ELSE /\ coro' = [coro EXCEPT
                          ![c].stack = IF didFail(a) THEN Rethrow(Pop(@), a) ELSE Pop(@),
                          ![c].recv = NoRecv]
            /\ lastOp' = IF didFail(a)
                         THEN [lo EXCEPT !.out = "raised", !.e = awt[a].exceptionPtr]
                         ELSE [lo EXCEPT !.out = "returned"]
            /\ UNCHANGED <<awt, sCurrentCoro, sMasterCoroChain, aborted>>

\* Awaitable::await after its yieldTo(masterCoro()) returned or threw
AwaitResume(c) ==
    /\ UNCHANGED <<schedVars, libVars>>
    /\ ResumedAt(c, "await", "yielded")
    /\ LET f == Top(c)
           a == f.a
           r == coro[c].recv
           lo == LO("awaitResume", c, a, "") IN
       IF r.type = "exception"
       THEN /\ coro' = [coro EXCEPT ![c].stack = Raise(Pop(@), r.exc), ![c].recv = NoRecv]
            /\ lastOp' = [lo EXCEPT !.out = "unwound", !.e = r.exc]
            /\ UNCHANGED <<awt, sCurrentCoro, sMasterCoroChain, aborted>>
       ELSE IF awt[a].st # "alive"
       THEN Abort("crash: await resumed on a destroyed awaitable", "awaitResume")
       ELSE IF ~isDone(a)
       THEN Abort("await: isDone()", "awaitResume")
       ELSE /\ awt' = [awt EXCEPT ![a].awaitingCoro = Null]
            /\ coro' = [coro EXCEPT
                          ![c].stack = IF didFail(a) THEN Rethrow(Pop(@), a) ELSE Pop(@),
                          ![c].recv = NoRecv]
            /\ lastOp' = IF didFail(a)
                         THEN [lo EXCEPT !.out = "raised", !.e = awt[a].exceptionPtr]
                         ELSE [lo EXCEPT !.out = "returned"]
            /\ UNCHANGED <<sCurrentCoro, sMasterCoroChain, aborted>>

\* ---------------------------------------------------------------- awaitAny
Range(q) == {q[i] : i \in DOMAIN q} \ {Null}

Max(S) == CHOOSE x \in S : \A y \in S : y <= x

\* the collections user code passes to awaitAny: awaitables it can name, each at
\* most once, and entries selectAwaitable maps to nullptr; at least one awaitable
AnySeqs(c) ==
    {q \in UNION {[1..n -> Visible(c) \cup {Null}] : n \in 1..MaxAny} :
        /\ \A i, j \in DOMAIN q : (i # j /\ q[i] # Null) => q[i] # q[j]
        /\ \E i \in DOMAIN q : q[i] # Null}

\* the loops of awaitAny over the collection, from position i on: the first
\* position whose awaitable is done, 0 for end()
RECURSIVE ScanDone(_, _, _)
ScanDone(aw, q, i) ==
    IF i > Len(q) THEN 0
    ELSE IF q[i] # Null /\ (aw[q[i]].didComplete \/ aw[q[i]].exceptionPtr # NoExc) THEN i
    ELSE ScanDone(aw, q, i + 1)

\* a scan that reports the last done element instead of the first
LastDone(aw, q) ==
    LET done == {i \in DOMAIN q :
                   q[i] # Null /\ (aw[q[i]].didComplete \/ aw[q[i]].exceptionPtr # NoExc)} IN
    IF done = {} THEN 0 ELSE Max(done)

FirstDone(aw, q) == ScanDone(aw, q, 1)

\* awaitAny(Collection&): up to its yieldTo(mainContext())
AwaitAny(c, q) ==
    /\ UNCHANGED <<schedVars, libVars>>
    /\ UserAt(c)
    /\ Top(c).k = "body"
    /\ q \in AnySeqs(c)
    /\ LET lo == [LO("awaitAny", c, Null, "") EXCEPT
                     !.s = q, !.pre = IF FirstDone(awt, q) # 0 THEN "done" ELSE "pending"] IN
       IF c = mainCoro
       THEN Abort("awaitAny: currentContext() != mainContext()", "awaitAny")
       ELSE IF FirstDone(awt, q) # 0
       THEN /\ lastOp' = [lo EXCEPT !.out = "returned", !.pos = FirstDone(awt, q)]
            /\ UNCHANGED <<coro, awt, sCurrentCoro, sMasterCoroChain, aborted>>
       ELSE /\ awt' = [a \in AwtIds |->
                         IF a \in Range(q) THEN [awt[a] EXCEPT !.awaitingCoro = c] ELSE awt[a]]
            /\ YieldTo(mainCoro, "result", NoExc,
                       [coro EXCEPT ![c].stack =
                           Append(@, [Frame("awaitAny", "yielded", Null) EXCEPT !.s = q])],
                       [lo EXCEPT !.out = "suspended"])
            /\ UNCHANGED sMasterCoroChain

\* a coroutine body calls awaitAny on one of the collections it can build
AwaitAnyCall(c) ==
    /\ UserAt(c)
    /\ \E q \in AnySeqs(c) : AwaitAny(c, q)

\* awaitAny that cancels the elements it did not return
AwaitAnyResumeCancels(c) ==
    /\ UNCHANGED <<schedVars, libVars>>
    /\ ResumedAt(c, "awaitAny", "yielded")
    /\ LET f == Top(c)
           r == coro[c].recv
           aw == [a \in AwtIds |->
                    IF a \in Range(f.s) THEN [awt[a] EXCEPT !.awaitingCoro = Null] ELSE awt[a]]
           lo == [LO("awaitAnyResume", c, Null, "") EXCEPT !.s = f.s] IN
       IF r.type = "exception"
       THEN /\ coro' = [coro EXCEPT ![c].stack = Raise(Pop(@), r.exc), ![c].recv = NoRecv]
            /\ lastOp' = [lo EXCEPT !.out = "unwound", !.e = r.exc]
            /\ UNCHANGED <<awt, sCurrentCoro, sMasterCoroChain, aborted>>
       ELSE IF FirstDone(aw, f.s) = 0
       THEN /\ aborted' = "awaitAny: completedAwt != nullptr"
            /\ awt' = aw
            /\ lastOp' = [lo EXCEPT !.out = "abort"]
            /\ UNCHANGED <<coro, sCurrentCoro, sMasterCoroChain>>
       ELSE /\ awt' = [a \in AwtIds |->
                         IF a \in Range(f.s) /\ a # f.s[FirstDone(aw, f.s)]
                            /\ ~aw[a].didComplete /\ aw[a].exceptionPtr = NoExc
                         THEN [aw[a] EXCEPT !.exceptionPtr = YieldForbidden,
                                            !.completerGuard = 0]
                         ELSE aw[a]]
            /\ coro' = [coro EXCEPT ![c].stack = Pop(@), ![c].recv = NoRecv]
            /\ lastOp' = [lo EXCEPT !.out = "returned", !.pos = FirstDone(aw, f.s)]
            /\ UNCHANGED <<sCurrentCoro, sMasterCoroChain, aborted>>

\* awaitAny after its yieldTo returned or threw
AwaitAnyResume(c) ==
    /\ UNCHANGED <<schedVars, libVars>>
    /\ ResumedAt(c, "awaitAny", "yielded")
    /\ LET f == Top(c)
           r == coro[c].recv
           aw == [a \in AwtIds |->
                    IF a \in Range(f.s) THEN [awt[a] EXCEPT !.awaitingCoro = Null] ELSE awt[a]]
           lo == [LO("awaitAnyResume", c, Null, "") EXCEPT !.s = f.s] IN
       IF r.type = "exception"
       THEN /\ coro' = [coro EXCEPT ![c].stack = Raise(Pop(@), r.exc), ![c].recv = NoRecv]
            /\ lastOp' = [lo EXCEPT !.out = "unwound", !.e = r.exc]
            /\ UNCHANGED <<awt, sCurrentCoro, sMasterCoroChain, aborted>>
       ELSE IF FirstDone(aw, f.s) = 0
       THEN /\ aborted' = "awaitAny: completedAwt != nullptr"
            /\ awt' = aw
            /\ lastOp' = [lo EXCEPT !.out = "abort"]
            /\ UNCHANGED <<coro, sCurrentCoro, sMasterCoroChain>>
       ELSE /\ awt' = aw
            /\ coro' = [coro EXCEPT ![c].stack = Pop(@), ![c].recv = NoRecv]
            /\ lastOp' = [lo EXCEPT !.out = "returned", !.pos = FirstDone(aw, f.s)]
            /\ UNCHANGED <<sCurrentCoro, sMasterCoroChain, aborted>>

\* ------------------------------------------------------------- destruction
\* the tail of Awaitable::~Awaitable: delete the bound coro (Coro::clear), free the
\* AwaitableImpl and with it the completer guard
DtorTail(aw, cor, a, lo) ==
    LET b == aw[a].boundCoro IN
    IF b # Null /\ cor[b].isRunning
    THEN /\ aborted' = "~Awaitable: !boundCoro->isRunning()"
         /\ awt' = aw
         /\ coro' = cor
         /\ lastOp' = [lo EXCEPT !.out = "abort"]
    ELSE /\ aborted' = aborted
         /\ awt' = [aw EXCEPT ![a] = [NoAwt EXCEPT !.st = "destroyed",
                                                   !.gen = IF aw[a].gen > 0 THEN 1 ELSE 0]]
         /\ coro' = IF b = Null THEN cor
                    ELSE [cor EXCEPT ![b] = [NoCoro EXCEPT !.st = "deleted", !.addr = cor[b].addr]]
         /\ lastOp' = [lo EXCEPT !.out = "destroyed"]

\* a destructor that leaves the awaiting coro registered
DtorKeepsAwaiter(cor, chain, a, lo) ==
    LET c == sCurrentCoro
        b == awt[a].boundCoro
        aw == awt IN
    IF isDone(a)
    THEN /\ IF awt[a].awaitingCoro # Null
            THEN /\ aborted' = "~Awaitable: awaitingCoro == nullptr"
                 /\ awt' = awt
                 /\ coro' = cor
                 /\ lastOp' = [lo EXCEPT !.out = "abort"]
            ELSE DtorTail(awt, cor, a, lo)
         /\ sMasterCoroChain' = chain
         /\ sCurrentCoro' = sCurrentCoro
    ELSE IF b # Null
    THEN IF ~cor[b].isRunning
         THEN /\ aborted' = "~Awaitable: boundCoro->isRunning()"
              /\ awt' = aw
              /\ coro' = cor
              /\ lastOp' = [lo EXCEPT !.out = "abort"]
              /\ sMasterCoroChain' = chain
              /\ sCurrentCoro' = sCurrentCoro
         ELSE LET p == IF chain[Len(chain)] = c THEN Null ELSE c IN
              /\ awt' = aw
              /\ sMasterCoroChain' = IF p = Null THEN chain ELSE Append(chain, c)
              /\ YieldTo(b, "exception", ForcedUnwind,
                         [cor EXCEPT ![c].stack =
                             Append(@, [Frame("dtor", "unwinding", a) EXCEPT !.p = p])],
                         [lo EXCEPT !.out = "forceUnwind"])
    ELSE /\ AwaitableDone(aw, [cor EXCEPT ![c].stack = Append(@, Frame("dtor", "failing", a))],
                          a, YieldForbidden, "dtor", [lo EXCEPT !.out = "fail"])
         /\ sMasterCoroChain' = chain

\* Awaitable::~Awaitable up to its first transfer or callback.  cor holds the
\* caller's stack and chain the master chain at the call.
Dtor(cor, chain, a, lo) ==
    LET c == sCurrentCoro
        b == awt[a].boundCoro
        aw == [awt EXCEPT ![a].awaitingCoro = Null] IN
    IF isDone(a)
    THEN /\ IF awt[a].awaitingCoro # Null
            THEN /\ aborted' = "~Awaitable: awaitingCoro == nullptr"
                 /\ awt' = awt
                 /\ coro' = cor
                 /\ lastOp' = [lo EXCEPT !.out = "abort"]
            ELSE DtorTail(awt, cor, a, lo)
         /\ sMasterCoroChain' = chain
         /\ sCurrentCoro' = sCurrentCoro
    ELSE IF b # Null
    THEN IF ~cor[b].isRunning
         THEN /\ aborted' = "~Awaitable: boundCoro->isRunning()"
              /\ awt' = aw
              /\ coro' = cor
              /\ lastOp' = [lo EXCEPT !.out = "abort"]
              /\ sMasterCoroChain' = chain
              /\ sCurrentCoro' = sCurrentCoro
         ELSE LET p == IF chain[Len(chain)] = c THEN Null ELSE c IN
              /\ awt' = aw
              /\ sMasterCoroChain' = IF p = Null THEN chain ELSE Append(chain, c)
              /\ YieldTo(b, "exception", ForcedUnwind,
                         [cor EXCEPT ![c].stack =
                             Append(@, [Frame("dtor", "unwinding", a) EXCEPT !.p = p])],
                         [lo EXCEPT !.out = "forceUnwind"])
    ELSE /\ AwaitableDone(aw, [cor EXCEPT ![c].stack = Append(@, Frame("dtor", "failing", a))],
                          a, YieldForbidden, "dtor", [lo EXCEPT !.out = "fail"])
         /\ sMasterCoroChain' = chain

InAwaitedCollection(a) ==
    \E c \in CoroAwtIds : \E i \in DOMAIN coro[c].stack :
        coro[c].stack[i].k = "awaitAny" /\ a \in Range(coro[c].stack[i].s)

\* user code destroys an awaitable it owns
Destroy(c, a) ==
    /\ UNCHANGED <<schedVars, libVars>>
    /\ UserAt(c)
    /\ awt[a].st = "alive"
    /\ awt[a].owner = c
    /\ ~InAwaitedCollection(a)
    /\ Dtor(coro, sMasterCoroChain, a, LO("destroy", c, a, ""))

\* Awaitable::~Awaitable after forceUnwind(boundCoro) returned
DtorResume(c) ==
    /\ UNCHANGED <<schedVars, libVars>>
    /\ ResumedAt(c, "dtor", "unwinding")
    /\ LET f == Top(c) IN
       IF coro[c].recv.type = "exception"
       THEN Abort("forceUnwind: Coro may not throw on ForcedUnwind", "destroy")
       ELSE IF ChainPopFails(sMasterCoroChain, f.p)
       THEN Abort("~PushMasterCoro: not in master coro chain", "destroy")
       ELSE /\ DtorTail(awt, [coro EXCEPT ![c].stack = Pop(@), ![c].recv = NoRecv], f.a,
                        [LO("destroy", c, f.a, "") EXCEPT !.pre = "unwound"])
            /\ sMasterCoroChain' = ChainPop(sMasterCoroChain, f.p)
            /\ UNCHANGED sCurrentCoro

\* Awaitable::~Awaitable after fail(YieldForbidden::ptr()) returned
DtorEnd(c) ==
    /\ UNCHANGED <<schedVars, libVars>>
    /\ ResumedAt(c, "dtor", "failing")
    /\ DtorTail(awt, [coro EXCEPT ![c].stack = Pop(@)], Top(c).a,
                [LO("destroy", c, Top(c).a, "") EXCEPT !.pre = "failed"])
    /\ UNCHANGED <<sCurrentCoro, sMasterCoroChain>>

\* --------------------------------------------------------------- startAsync
\* the address operator new hands to a new Coro: fresh, or one freed by a deleted coro
FreeAddrs(b) ==
    {b} \cup {coro[d].addr : d \in {x \in CoroAwtIds :
                 /\ coro[x].st = "deleted"
                 /\ \A y \in CoroAwtIds : coro[y].st = "alive" => coro[y].addr # coro[x].addr}}

\* a startAsync that creates the coro but leaves its first run to later
StartAsyncLazy(c) ==
    /\ UNCHANGED <<schedVars, libVars>>
    /\ UserAt(c)
    /\ Cardinality(Alive) < MaxLive
    /\ \E b \in CoroAwtIds : \E ad \in FreeAddrs(b) :
         /\ awt[b].st = "none"
         /\ \A x \in CoroAwtIds : x < b => awt[x].st # "none"
         /\ awt' = [awt EXCEPT ![b] = [NoAwt EXCEPT !.st = "alive", !.owner = c,
                                                    !.completerGuard = 1,
                                                    !.boundCoro = b]]
         /\ sMasterCoroChain' = ChainPush(c)
         /\ coro' = [coro EXCEPT
                       ![b] = [NoCoro EXCEPT !.st = "alive", !.isRunning = TRUE,
                                             !.parent = c, !.addr = ad],
                       ![c].stack = Append(@, [Frame("startAsync", "yielded", b) EXCEPT
                                                  !.p = Pushed(c)])]
         /\ lastOp' = LO("startAsync", c, b, "entered")
    /\ UNCHANGED <<sCurrentCoro, aborted>>

\* startAsync up to and including its yieldTo(coro)
StartAsync(c) ==
    /\ UNCHANGED <<schedVars, libVars>>
    /\ UserAt(c)
    /\ Cardinality(Alive) < MaxLive
    /\ \E b \in CoroAwtIds : \E ad \in FreeAddrs(b) :
         /\ awt[b].st = "none"
         /\ \A x \in CoroAwtIds : x < b => awt[x].st # "none"
         /\ awt' = [awt EXCEPT ![b] = [NoAwt EXCEPT !.st = "alive", !.owner = c,
                                                    !.completerGuard = 1,
                                                    !.boundCoro = b]]
         /\ sMasterCoroChain' = ChainPush(c)
         /\ YieldTo(b, "result", NoExc,
                    [coro EXCEPT
                       ![b] = [NoCoro EXCEPT !.st = "alive", !.isRunning = TRUE,
                                             !.parent = c, !.addr = ad],
                       ![c].stack = Append(@, [Frame("startAsync", "yielded", b) EXCEPT
                                                  !.p = Pushed(c)])],
                    LO("startAsync", c, b, "entered"))

\* Coro::fcontextFunc: first transfer into a coro, enters the startAsync lambda
CoroEnter(c) ==
    /\ UNCHANGED <<schedVars, libVars>>
    /\ aborted = ""
    /\ sCurrentCoro = c
    /\ coro[c].stack = <<>>
    /\ coro[c].isRunning
    /\ LET r == coro[c].recv IN
       IF r.type = "exception"
       THEN /\ YieldTo(coro[c].parent,
                       IF r.exc = ForcedUnwind THEN "result" ELSE "exception",
                       IF r.exc = ForcedUnwind THEN NoExc ELSE r.exc,
                       [coro EXCEPT ![c].isRunning = FALSE, ![c].recv = NoRecv],
                       [LO("CoroFinish", c, c, "transfer") EXCEPT !.w = coro[c].parent])
            /\ UNCHANGED <<awt, sMasterCoroChain>>
       ELSE /\ coro' = [coro EXCEPT ![c].stack = <<Frame("lambda", "infunc", c),
                                                   Frame("body", "run", c)>>,
                                    ![c].entered = @ + 1,
                                    ![c].recv = NoRecv]
            /\ lastOp' = Quiet
            /\ UNCHANGED <<awt, sCurrentCoro, sMasterCoroChain, aborted>>

\* startAsync after its yieldTo(coro) returned: pop the master guard, return awt
StartAsyncReturn(c) ==
    /\ UNCHANGED <<schedVars, libVars>>
    /\ ResumedAt(c, "startAsync", "yielded")
    /\ coro[c].recv.type # "exception"
    /\ LET f == Top(c) IN
       IF ChainPopFails(sMasterCoroChain, f.p)
       THEN Abort("~PushMasterCoro: not in master coro chain", "startAsync")
       ELSE /\ sMasterCoroChain' = ChainPop(sMasterCoroChain, f.p)
            /\ coro' = [coro EXCEPT ![c].stack = Pop(@), ![c].recv = NoRecv]
            /\ lastOp' = LO("startAsync", c, f.a, "returned")
            /\ UNCHANGED <<awt, sCurrentCoro, aborted>>

\* startAsync unwound by an exception thrown from its yieldTo: the master guard
\* and the local awt are destroyed
StartAsyncUnwind(c) ==
    /\ UNCHANGED <<schedVars, libVars>>
    /\ ResumedAt(c, "startAsync", "yielded")
    /\ coro[c].recv.type = "exception"
    /\ LET f == Top(c) IN
       IF ChainPopFails(sMasterCoroChain, f.p)
       THEN Abort("~PushMasterCoro: not in master coro chain", "startAsync")
       ELSE /\ Dtor([coro EXCEPT ![c].stack = SetTop(@, [f EXCEPT !.pc = "unwind",
                                                                  !.e = coro[c].recv.exc]),
                                 ![c].recv = NoRecv],
                    ChainPop(sMasterCoroChain, f.p), f.a, LO("destroy", c, f.a, ""))

\* the exception leaves startAsync
StartAsyncRaise(c) ==
    /\ UNCHANGED <<schedVars, libVars>>
    /\ ResumedAt(c, "startAsync", "unwind")
    /\ coro' = [coro EXCEPT ![c].stack = Raise(Pop(@), Top(c).e)]
    /\ lastOp' = Quiet
    /\ UNCHANGED <<awt, sCurrentCoro, sMasterCoroChain, aborted>>

\* ------------------------------------------------------- coroutine bodies
InBody(c, pc) == ResumedAt(c, "body", pc)

\* the body (AsyncFunc) returns
BodyReturn(c) ==
    /\ UNCHANGED <<schedVars, libVars>>
    /\ InBody(c, "run")
    /\ coro' = [coro EXCEPT ![c].stack = SetTop(@, [Top(c) EXCEPT !.pc = "exit"]),
                            ![c].exitWith = NoExc]
    /\ lastOp' = Quiet
    /\ UNCHANGED <<awt, sCurrentCoro, sMasterCoroChain, aborted>>

\* the body throws an exception of its own
BodyThrow(c, e) ==
    /\ UNCHANGED <<schedVars, libVars>>
    /\ InBody(c, "run")
    /\ coro' = [coro EXCEPT ![c].stack = SetTop(@, [Top(c) EXCEPT !.pc = "exit", !.e = e]),
                            ![c].exitWith = e]
    /\ lastOp' = Quiet
    /\ UNCHANGED <<awt, sCurrentCoro, sMasterCoroChain, aborted>>

\* the body catches an exception raised by a call and remembers which awaitable
\* it came from; ForcedUnwind is let through
BodyCatch(c) ==
    /\ UNCHANGED <<schedVars, libVars>>
    /\ InBody(c, "exc")
    /\ Top(c).e # ForcedUnwind
    /\ coro' = [coro EXCEPT ![c].stack =
                   SetTop(@, [Top(c) EXCEPT !.pc = "run", !.e = NoExc, !.p = Null,
                                            !.s = <<Top(c).p>>])]
    /\ lastOp' = Quiet
    /\ UNCHANGED <<awt, sCurrentCoro, sMasterCoroChain, aborted>>

\* the body lets an exception raised by a call propagate
BodyPropagate(c) ==
    /\ UNCHANGED <<schedVars, libVars>>
    /\ InBody(c, "exc")
    /\ coro' = [coro EXCEPT ![c].stack = SetTop(@, [Top(c) EXCEPT !.pc = "exit"]),
                            ![c].exitWith = Top(c).e]
    /\ lastOp' = Quiet
    /\ UNCHANGED <<awt, sCurrentCoro, sMasterCoroChain, aborted>>

Owned(c) == {a \in AwtIds : awt[a].st = "alive" /\ awt[a].owner = c}

\* leaving the body destroys its local awaitables, last constructed first
BodyCleanup(c) ==
    /\ UNCHANGED <<schedVars, libVars>>
    /\ InBody(c, "exit")
    /\ Owned(c) # {}
    /\ Dtor(coro, sMasterCoroChain, Max(Owned(c)), LO("destroy", c, Max(Owned(c)), ""))

\* a lambda that swallows the exception of func and completes the awaitable
LambdaFinishSwallows(c) ==
    /\ UNCHANGED <<schedVars, libVars>>
    /\ InBody(c, "exit")
    /\ Owned(c) = {}
    /\ LET w == awt[c].awaitingCoro
           par == IF w # Null THEN w ELSE masterCoro IN
       IF par = c
       THEN Abort("setParent: coro != this", "lambda")
       ELSE /\ AwaitableDone([awt EXCEPT ![c].awaitingCoro = Null],
                             [coro EXCEPT ![c].parent = par,
                                          ![c].stack = <<Frame("lambda", "completing", c)>>],
                             c, NoExc, "lambda", Quiet)
            /\ UNCHANGED sMasterCoroChain

\* the lambda of startAsync after func returned or threw
LambdaFinish(c) ==
    /\ UNCHANGED <<schedVars, libVars>>
    /\ InBody(c, "exit")
    /\ Owned(c) = {}
    /\ LET eptr == Top(c).e
           w == awt[c].awaitingCoro
           par == IF w # Null THEN w ELSE masterCoro
           lo == Quiet IN
       IF par = c
       THEN Abort("setParent: coro != this", "lambda")
       ELSE /\ AwaitableDone([awt EXCEPT ![c].awaitingCoro = Null],
                             [coro EXCEPT ![c].parent = par,
                                          ![c].stack = <<Frame("lambda", "completing", c)>>],
                             c, eptr, "lambda", lo)
            /\ UNCHANGED sMasterCoroChain

\* a trampoline that yields to the parent without marking the coro unwound
CoroFinishStillRunning(c) ==
    /\ UNCHANGED <<schedVars, libVars>>
    /\ ResumedAt(c, "lambda", "completing")
    /\ YieldTo(coro[c].parent, "result", NoExc,
               [coro EXCEPT ![c].stack = <<>>],
               [LO("CoroFinish", c, c, "transfer") EXCEPT !.w = coro[c].parent])
    /\ UNCHANGED <<awt, sMasterCoroChain>>

\* the tail of Coro::fcontextFunc: mark the coro unwound, final yield to the parent
CoroFinish(c) ==
    /\ UNCHANGED <<schedVars, libVars>>
    /\ ResumedAt(c, "lambda", "completing")
    /\ YieldTo(coro[c].parent, "result", NoExc,
               [coro EXCEPT ![c].isRunning = FALSE, ![c].stack = <<>>],
               [LO("CoroFinish", c, c, "transfer") EXCEPT !.w = coro[c].parent])
    /\ UNCHANGED <<awt, sMasterCoroChain>>

\* ------------------------------------------------- coroutines used directly
\* void* payloads user code passes to yield / yieldTo; 0 is nullptr
Values == 0..MaxVal

\* user code of the main program or of a Coro::Func is running on coro c
FuncAt(c) ==
    /\ aborted = ""
    /\ sCurrentCoro = c
    /\ coro[c].stack # <<>>
    /\ Top(c).k \in {"loop", "func"}
    /\ Top(c).pc = "run"

\* new Coro(tag, func): the constructor and Coro::init; the parent is the creator
NewCoro(c) ==
    /\ UNCHANGED <<schedVars, libVars>>
    /\ FuncAt(c)
    /\ \E b \in CoroAwtIds :
         /\ coro[b].st = "none"
         /\ \A x \in CoroAwtIds : x < b => coro[x].st # "none"
         /\ coro' = [coro EXCEPT ![b] = [NoCoro EXCEPT !.st = "alive", !.isRunning = TRUE,
                                                      !.parent = c, !.addr = b]]
         /\ lastOp' = LO("newCoro", c, b, "created")
    /\ UNCHANGED <<awt, sCurrentCoro, sMasterCoroChain, aborted>>

\* Coro::setParent, called by user code
SetParent(c, b, p) ==
    /\ UNCHANGED <<schedVars, libVars>>
    /\ FuncAt(c)
    /\ b \in CoroAwtIds /\ coro[b].st = "alive"
    /\ p \in CoroIds /\ coro[p].st = "alive"
    /\ coro[b].parent # p
    /\ IF p = b
       THEN Abort("setParent: coro != this", "setParent")
       ELSE /\ coro' = [coro EXCEPT ![b].parent = p]
            /\ lastOp' = LO("setParent", c, b, "set")
            /\ UNCHANGED <<awt, sCurrentCoro, sMasterCoroChain, aborted>>

\* yieldTo(resumeCoro, value) and yieldExceptionTo(resumeCoro, eptr) called by
\* user code on coro c
CoroYieldTo(c, t, type, exc, val) ==
    /\ UNCHANGED <<schedVars, libVars>>
    /\ FuncAt(c)
    /\ YieldToV(t, type, exc, val,
                [coro EXCEPT ![c].stack = Append(@, Frame("yield", "yielded", Null))],
                [LO("yieldTo", c, Null, "transfer") EXCEPT
                    !.e = exc, !.w = val, !.pre = type])
    /\ UNCHANGED <<awt, sMasterCoroChain>>

\* yield(value): yieldTo(m->parent, value)
CoroYield(c, val) ==
    /\ FuncAt(c)
    /\ CoroYieldTo(c, coro[c].parent, "result", NoExc, val)

\* yieldException(eptr): yieldExceptionTo(m->parent, eptr)
CoroYieldException(c, exc) ==
    /\ FuncAt(c)
    /\ CoroYieldTo(c, coro[c].parent, "exception", exc, Null)

\* forceUnwind(coro): yieldExceptionTo(coro, ForcedUnwind::ptr()) inside a try block
ForceUnwind(c, b) ==
    /\ UNCHANGED <<schedVars, libVars>>
    /\ FuncAt(c)
    /\ b \in CoroAwtIds /\ coro[b].st = "alive"
    /\ coro[b].fu < MaxUnwind
    /\ YieldToV(b, "exception", ForcedUnwind, Null,
                [coro EXCEPT ![c].stack = Append(@, Frame("forceUnwind", "yielded", b))],
                [LO("forceUnwind", c, b, "transfer") EXCEPT
                    !.e = ForcedUnwind, !.pre = "exception"])
    /\ UNCHANGED <<awt, sMasterCoroChain>>

\* forceUnwind after its yield returned or threw
ForceUnwindResume(c) ==
    /\ UNCHANGED <<schedVars, libVars>>
    /\ ResumedAt(c, "forceUnwind", "yielded")
    /\ LET r == coro[c].recv IN
       IF r.type = "exception"
       THEN Abort("forceUnwind: Coro may not throw on ForcedUnwind", "forceUnwind")
       ELSE /\ coro' = [coro EXCEPT ![c].stack = Pop(@), ![c].recv = NoRecv]
            /\ lastOp' = [LO("resume", c, Top(c).a, "returned") EXCEPT
                             !.w = r.val, !.pre = r.type, !.v = "forceUnwind"]
            /\ UNCHANGED <<awt, sCurrentCoro, sMasterCoroChain, aborted>>

\* a yield call of user code is resumed: Coro::unpackYieldValue returns the value
\* pointer or rethrows the exception on this stack
CoroResume(c) ==
    /\ UNCHANGED <<schedVars, libVars>>
    /\ ResumedAt(c, "yield", "yielded")
    /\ LET r == coro[c].recv IN
       /\ coro' = [coro EXCEPT
                     ![c].stack = IF r.type = "exception" THEN Raise(Pop(@), r.exc) ELSE Pop(@),
                     ![c].recv = NoRecv]
       /\ lastOp' = [LO("resume", c, Null,
                        IF r.type = "exception" THEN "raised" ELSE "returned") EXCEPT
                        !.e = r.exc, !.w = r.val, !.pre = r.type, !.v = "yield"]
    /\ UNCHANGED <<awt, sCurrentCoro, sMasterCoroChain, aborted>>

\* the tail of Coro::fcontextFunc: the coro is marked unwound, then the final
\* yield to the parent: yield() after a return or a ForcedUnwind,
\* yieldFinalException(peptr) after any other exception
FinalYield(c, exc, how) ==
    LET sent == IF exc \in {NoExc, ForcedUnwind} THEN NoExc ELSE exc IN
    YieldToV(coro[c].parent, IF sent = NoExc THEN "result" ELSE "exception", sent, Null,
             [coro EXCEPT ![c].isRunning = FALSE, ![c].stack = <<>>, ![c].recv = NoRecv,
                          ![c].exitWith = how],
             [LO("finalYield", c, c, "transfer") EXCEPT
                 !.e = sent, !.v = how,
                 !.pre = IF sent = NoExc THEN "result" ELSE "exception"])

\* Coro::fcontextFunc entered by the first transfer into the coro: the initial
\* payload is unpacked and handed to func
FuncEnter(c) ==
    /\ UNCHANGED <<schedVars, libVars>>
    /\ aborted = ""
    /\ sCurrentCoro = c
    /\ coro[c].stack = <<>>
    /\ coro[c].isRunning
    /\ LET r == coro[c].recv IN
       IF r.type = "exception"
       THEN /\ FinalYield(c, r.exc, IF r.exc = ForcedUnwind THEN "unwound" ELSE "threw")
            /\ UNCHANGED <<awt, sMasterCoroChain>>
       ELSE /\ coro' = [coro EXCEPT ![c].stack = <<Frame("func", "run", c)>>,
                                    ![c].entered = @ + 1,
                                    ![c].recv = NoRecv]
            /\ lastOp' = [LO("resume", c, Null, "returned") EXCEPT
                             !.w = r.val, !.pre = r.type, !.v = "enter"]
            /\ UNCHANGED <<awt, sCurrentCoro, sMasterCoroChain, aborted>>

\* user code throws
FuncThrow(c, e) ==
    /\ UNCHANGED <<schedVars, libVars>>
    /\ FuncAt(c)
    /\ Top(c).k = "func"
    /\ coro' = [coro EXCEPT ![c].stack = Raise(@, e)]
    /\ lastOp' = Quiet
    /\ UNCHANGED <<awt, sCurrentCoro, sMasterCoroChain, aborted>>

\* user code catches the exception a yield call raised (or its own)
FuncCatch(c) ==
    /\ UNCHANGED <<schedVars, libVars>>
    /\ aborted = ""
    /\ sCurrentCoro = c
    /\ coro[c].stack # <<>>
    /\ Top(c).k \in {"loop", "func"}
    /\ Top(c).pc = "exc"
    /\ coro' = [coro EXCEPT ![c].stack = SetTop(@, [Top(c) EXCEPT !.pc = "run", !.e = NoExc])]
    /\ lastOp' = Quiet
    /\ UNCHANGED <<awt, sCurrentCoro, sMasterCoroChain, aborted>>

\* func returns, or an exception leaves it: the catch clauses of fcontextFunc
FuncEnd(c) ==
    /\ UNCHANGED <<schedVars, libVars>>
    /\ aborted = ""
    /\ sCurrentCoro = c
    /\ coro[c].stack # <<>>
    /\ Top(c).k = "func"
    /\ Top(c).pc \in {"run", "exc"}
    /\ FinalYield(c, Top(c).e,
                  IF Top(c).pc = "run" THEN "returned"
                  ELSE IF Top(c).e = ForcedUnwind THEN "unwound" ELSE "threw")
    /\ UNCHANGED <<awt, sMasterCoroChain>>

\* ---------------------------------------------------------------- StackPool
\* pool.mStacks is the multimap mStacks as the sequence of its entries in
\* iteration order: by size, entries of equal size in insertion order.
\* pool.size / pool.st describe every stack_context the allocator ever made,
\* pool.stack[k] is Impl::stack of Coro object k and pool.req[k] the stackSize
\* its constructor was called with; pool.recycledFor is the stackSize of the coro
\* whose destruction was the last operation on the pool (0: none).

\* an obtain that takes the largest cached stack
LastFit(m, sz, n) == IF m # <<>> /\ sz[m[Len(m)]] >= n THEN Len(m) ELSE 0

\* mStacks.lower_bound(minStackSize): the position of the first entry whose size
\* is not less than n, 0 for end()
LowerBound(m, sz, n) ==
    LET fit == {i \in DOMAIN m : sz[m[i]] >= n} IN
    IF fit = {} THEN 0 ELSE CHOOSE i \in fit : \A j \in fit : i <= j

\* mStacks.insert(make_pair(stack.size, stack)): behind the entries that are not
\* larger
MapInsert(m, sz, x) ==
    LET k == Cardinality({i \in DOMAIN m : sz[m[i]] <= sz[x]}) IN
    SubSeq(m, 1, k) \o <<x>> \o SubSeq(m, k + 1, Len(m))

\* mStacks.erase(pos)
MapErase(m, i) == SubSeq(m, 1, i - 1) \o SubSeq(m, i + 1, Len(m))

\* the stack_context a new allocation gets: the next one the allocator makes
FreshStack == CHOOSE x \in StackIds : pool.st[x] = "none" /\ \A y \in StackIds : y < x => pool.st[y] # "none"

\* Coro::Coro(tag, stackSize) on Coro object k: StackPool::obtain(n) and the Impl
\* that keeps the stack; the coro is not initialized
CoroNew(k, n) ==
    /\ UNCHANGED otherThanPool
    /\ aborted = ""
    /\ pool.stack[k] = Null
    /\ LET pos == LowerBound(pool.mStacks, pool.size, n) IN
       IF pos = 0
       THEN /\ \E x \in StackIds : pool.st[x] = "none"
            /\ LET x == FreshStack
                   stackSize == IF MinimumStackSize < n THEN n ELSE MinimumStackSize IN
               /\ pool' = [pool EXCEPT !.size[x] = stackSize, !.st[x] = "held",
                                       !.stack[k] = x, !.req[k] = n, !.recycledFor = 0]
               /\ lastOp' = [LO("coroNew", Null, k, "allocated") EXCEPT !.pos = x, !.w = n]
       ELSE LET x == pool.mStacks[pos] IN
            /\ pool' = [pool EXCEPT !.mStacks = MapErase(@, pos), !.st[x] = "held",
                                    !.stack[k] = x, !.req[k] = n, !.recycledFor = 0]
            /\ lastOp' = [LO("coroNew", Null, k, "reused") EXCEPT !.pos = x, !.w = n]

\* Coro::~Coro / Coro::clear of Coro object k, which is not running:
\* StackPool::recycle(m->stack), delete m
CoroClear(k) ==
    /\ UNCHANGED otherThanPool
    /\ aborted = ""
    /\ pool.stack[k] # Null
    /\ LET x == pool.stack[k] IN
       /\ pool' = [pool EXCEPT !.mStacks = MapInsert(@, pool.size, x), !.st[x] = "cached",
                               !.stack[k] = Null, !.req[k] = 0,
                               !.recycledFor = pool.req[k]]
       /\ lastOp' = [LO("coroClear", Null, k, "recycled") EXCEPT !.pos = x, !.w = pool.req[k]]

\* Coro::drainStackPool: StackPool::drain deallocates every cached stack
DrainStackPool ==
    /\ UNCHANGED otherThanPool
    /\ aborted = ""
    /\ pool.mStacks # <<>>
    /\ pool' = [pool EXCEPT !.mStacks = <<>>,
                            !.st = [x \in StackIds |->
                                      IF pool.st[x] = "cached" THEN "freed" ELSE pool.st[x]],
                            !.recycledFor = 0]
    /\ lastOp' = LO("drain", Null, Null, "drained")

\* ------------------------------------------------------------------- Signal
HookIds == 1..MaxHooks

\* user code may call the signal: the host outside an emission, or a slot
\* that the emission is running
SigUser == aborted = "" /\ (~sig.frame.on \/ sig.frame.slot # 0)

\* Hook::isCanceled (it also caches the answer in the hook, which no caller
\* can tell apart)
IsCanceled(hk) == hk.isCanceled \/ (hk.hasFlag /\ hk.flag = "null")

\* Hook::cancel
Cancel(hk) == [hk EXCEPT !.flag = "null", !.hasFlag = FALSE, !.isCanceled = TRUE]

\* Signal::trimCanceled on signal state s: the state it leaves and the
\* assertion that failed, if one did
TrimCanceled(s) ==
    IF s.mNumCanceled = 0 \/ s.mIsEmitting
    THEN [bad |-> "", sig |-> s]
    ELSE IF s.mNumCanceled = Len(s.mHooks)
    THEN IF \E i \in DOMAIN s.mHooks : ~IsCanceled(s.hook[s.mHooks[i]])
         THEN [bad |-> "trimCanceled: hook.isCanceled()", sig |-> s]
         ELSE [bad |-> "", sig |-> [s EXCEPT !.mHooks = <<>>, !.mNumCanceled = 0]]
    ELSE LET kept == SelectSeq(s.mHooks, LAMBDA h : ~IsCanceled(s.hook[h])) IN
         IF Len(s.mHooks) - Len(kept) # s.mNumCanceled
         THEN [bad |-> "trimCanceled: mHooks.end() - pos == mNumCanceled", sig |-> s]
         ELSE [bad |-> "", sig |-> [s EXCEPT !.mHooks = kept, !.mNumCanceled = 0]]

\* the call ends with the signal in state r.sig, or stops at the assertion r.bad
SigDone(r, lo) ==
    /\ sig' = r.sig
    /\ aborted' = r.bad
    /\ lastOp' = IF r.bad # "" THEN [lo EXCEPT !.out = "abort"] ELSE lo

\* Signal::connect(slot) (lite = FALSE) and Signal::connectLite(slot)
Connect(lite) ==
    /\ UNCHANGED otherThanSig
    /\ SigUser
    /\ sig.st = "alive"
    /\ \E h \in HookIds :
         /\ sig.hook[h].st = "none"
         /\ \A g \in HookIds : g < h => sig.hook[g].st # "none"
         /\ LET hk == [NoHook EXCEPT !.st = IF lite THEN "lite" ELSE "made",
                                     !.hasFlag = ~lite,
                                     !.flag = IF lite THEN "null" ELSE "signal",
                                     !.user = "connected",
                                     !.madeIn = IF sig.frame.on THEN sig.emitNo ELSE 0] IN
            /\ sig' = IF sig.mIsEmitting
                      THEN [sig EXCEPT !.hook[h] = hk, !.mHooksToAdd = Append(@, h)]
                      ELSE [sig EXCEPT !.hook[h] = hk, !.mHooks = Append(@, h)]
            /\ lastOp' = LO(IF lite THEN "connectLite" ELSE "connect", Null, h,
                            IF sig.mIsEmitting THEN "pending" ELSE "added")
    /\ UNCHANGED aborted

\* SignalConnection::disconnect on a connection (or a copy of it) of hook h
Disconnect(h) ==
    /\ UNCHANGED otherThanSig
    /\ SigUser
    /\ sig.hook[h].st = "made"
    /\ LET lo == [LO("disconnect", Null, h, "") EXCEPT !.pre = sig.hook[h].user] IN
       IF sig.hook[h].flag = "null"
       THEN /\ lastOp' = [lo EXCEPT !.out = "noop"]
            /\ UNCHANGED <<sig, aborted>>
       ELSE SigDone(TrimCanceled([sig EXCEPT !.hook[h].flag = "null",
                                             !.hook[h].user = "disconnected",
                                             !.mNumCanceled = @ + 1]),
                    [lo EXCEPT !.out = "disconnected"])

\* every hook of the signal canceled
CancelAll(s) ==
    [s EXCEPT !.hook = [h \in HookIds |->
                          IF \/ \E i \in DOMAIN s.mHooks : s.mHooks[i] = h
                             \/ \E j \in DOMAIN s.mHooksToAdd : s.mHooksToAdd[j] = h
                          THEN [Cancel(s.hook[h]) EXCEPT
                                   !.user = IF @ = "connected" THEN "canceled" ELSE @]
                          ELSE s.hook[h]]]

\* Signal::disconnectAll
DisconnectAll ==
    /\ UNCHANGED otherThanSig
    /\ SigUser
    /\ sig.st = "alive"
    /\ \E h \in HookIds : sig.hook[h].user = "connected"
    /\ SigDone(TrimCanceled(CancelAll(sig)), LO("disconnectAll", Null, Null, "done"))

\* Signal::~Signal, also from a slot of the emission in progress
SignalDestroy ==
    /\ UNCHANGED otherThanSig
    /\ SigUser
    /\ sig.st = "alive"
    /\ sig' = [CancelAll(sig) EXCEPT !.st = "destroyed",
                                     !.frame.isEmitting = FALSE]
    /\ lastOp' = LO("~Signal", Null, Null, IF sig.mIsEmitting THEN "emitting" ELSE "idle")
    /\ UNCHANGED aborted

\* Signal::emitSignal up to its loop
Emit ==
    /\ UNCHANGED otherThanSig
    /\ SigUser
    /\ sig.st = "alive"
    /\ sig.emitNo < MaxEmit
    /\ LET lo == LO("emit", Null, Null, "") IN
       IF sig.mIsEmitting
       THEN SigDone([bad |-> "emitSignal: may not emit signal from a slot", sig |-> sig], lo)
       ELSE IF sig.mNumCanceled # 0
       THEN SigDone([bad |-> "emitSignal: mNumCanceled == 0", sig |-> sig], lo)
       ELSE IF sig.mHooksToAdd # <<>>
       THEN SigDone([bad |-> "emitSignal: mHooksToAdd.empty()", sig |-> sig], lo)
       ELSE IF sig.mHooks = <<>>
       THEN /\ sig' = [sig EXCEPT !.emitNo = @ + 1, !.calls = <<>>]
            /\ lastOp' = [lo EXCEPT !.out = "returned", !.v = "empty"]
            /\ UNCHANGED aborted
       ELSE /\ sig' = [sig EXCEPT !.emitNo = @ + 1, !.calls = <<>>,
                                  !.mIsEmitting = TRUE,
                                  !.frame = [on |-> TRUE, i |-> 1, n |-> Len(sig.mHooks),
                                             isEmitting |-> TRUE, slot |-> 0]]
            /\ lastOp' = [lo EXCEPT !.out = "started"]
            /\ UNCHANGED aborted

\* the test of the emission loop: the slot of hook h is called
Calls(s, h) == s.mNumCanceled = 0 \/ ~IsCanceled(s.hook[h])

\* one turn of the loop of emitSignal: hook i is skipped or its slot is entered
EmitNext ==
    /\ UNCHANGED otherThanSig
    /\ aborted = ""
    /\ sig.frame.on /\ sig.frame.slot = 0
    /\ sig.frame.i <= sig.frame.n
    /\ LET h == sig.mHooks[sig.frame.i] IN
       IF Calls(sig, h)
       THEN /\ sig' = [sig EXCEPT !.frame.slot = h, !.calls = Append(@, h)]
            /\ lastOp' = [LO("slot", Null, h, "invoked") EXCEPT !.pre = sig.hook[h].user]
       ELSE /\ sig' = [sig EXCEPT !.frame.i = @ + 1]
            /\ lastOp' = [LO("slot", Null, h, "skipped") EXCEPT !.pre = sig.hook[h].user]
    /\ UNCHANGED aborted

\* the slot returns to emitSignal
SlotReturn ==
    /\ UNCHANGED otherThanSig
    /\ aborted = ""
    /\ sig.frame.on /\ sig.frame.slot # 0
    /\ IF ~sig.frame.isEmitting
       THEN /\ sig' = [sig EXCEPT !.frame = NoEmit]
            /\ lastOp' = [LO("emit", Null, Null, "returned") EXCEPT !.v = "destroyed"]
       ELSE /\ sig' = [sig EXCEPT !.frame.slot = 0, !.frame.i = @ + 1]
            /\ lastOp' = Quiet
    /\ UNCHANGED aborted

\* the slot throws: the catch clause of emitSignal, which rethrows to the
\* caller of the emission
SlotThrow ==
    /\ UNCHANGED otherThanSig
    /\ aborted = ""
    /\ sig.frame.on /\ sig.frame.slot # 0
    /\ LET lo == [LO("emit", Null, Null, "raised") EXCEPT !.e = HostExc] IN
       IF sig.frame.isEmitting
       THEN SigDone(TrimCanceled([sig EXCEPT !.mIsEmitting = FALSE, !.frame = NoEmit]), lo)
       ELSE SigDone([bad |-> "", sig |-> [sig EXCEPT !.frame = NoEmit]], lo)

\* emitSignal behind its loop
EmitEnd ==
    /\ UNCHANGED otherThanSig
    /\ aborted = ""
    /\ sig.frame.on /\ sig.frame.slot = 0
    /\ sig.frame.i > sig.frame.n
    /\ LET lo == [LO("emit", Null, Null, "returned") EXCEPT !.v = "complete"] IN
       IF sig.frame.n # Len(sig.mHooks)
       THEN SigDone([bad |-> "emitSignal: n == mHooks.size()", sig |-> sig], lo)
       ELSE SigDone(TrimCanceled([sig EXCEPT !.mHooks = @ \o sig.mHooksToAdd,
                                             !.mHooksToAdd = <<>>,
                                             !.mIsEmitting = FALSE,
                                             !.frame = NoEmit]), lo)

\* ------------------------------------------------------------ YieldSequence
\* the sequences user code can name
LiveSeqs == {b \in CoroAwtIds : seq[b].st = "alive"}

\* YieldSequence(func): Coro("YieldSequence") and coro.init; the parent of the
\* generator coro is the coro that constructs the sequence
SeqNew(c) ==
    /\ UNCHANGED otherThanSeq
    /\ FuncAt(c)
    /\ \E b \in CoroAwtIds :
         /\ coro[b].st = "none"
         /\ \A x \in CoroAwtIds : x < b => coro[x].st # "none"
         /\ coro' = [coro EXCEPT ![b] = [NoCoro EXCEPT !.st = "alive", !.isRunning = TRUE,
                                                      !.parent = c, !.addr = b]]
         /\ seq' = [seq EXCEPT ![b] = [NoSeq EXCEPT !.st = "alive"]]
         /\ lastOp' = LO("seqNew", c, b, "created")
    /\ UNCHANGED <<awt, sCurrentCoro, sMasterCoroChain, aborted>>

\* Iterator::operator++ up to its yieldTo(&mContainer->coro)
Increment(c, b, op) ==
    /\ YieldToV(b, "result", NoExc, Null,
                [coro EXCEPT ![c].stack = Append(@, Frame("increment", "yielded", b))],
                [LO(op, c, b, "transfer") EXCEPT !.pre = seq[b].it])
    /\ UNCHANGED <<awt, sMasterCoroChain, seq>>

\* YieldSequence::begin: two assertions, then ++it on a new iterator
SeqBegin(c, b) ==
    /\ UNCHANGED otherThanSeq
    /\ FuncAt(c)
    /\ b \in LiveSeqs
    /\ IF seq[b].currentValue # Null \/ ~coro[b].isRunning
       THEN /\ Abort("begin: may not begin again", "begin")
            /\ UNCHANGED seq
       ELSE Increment(c, b, "begin")

\* ++it by user code on an iterator that points into the sequence
SeqIncrement(c, b) ==
    /\ UNCHANGED otherThanSeq
    /\ FuncAt(c)
    /\ b \in LiveSeqs
    /\ seq[b].it = "at"
    /\ Increment(c, b, "increment")

\* Iterator::operator++ after its yieldTo returned or threw.  The Impl of a
\* sequence destroyed in the meantime is freed memory: the program crashes.
SeqIncrementResume(c) ==
    /\ UNCHANGED otherThanSeq
    /\ ResumedAt(c, "increment", "yielded")
    /\ LET b == Top(c).a
           r == coro[c].recv
           lo == [LO("incremented", c, b, "") EXCEPT !.w = r.val, !.e = r.exc, !.pre = r.type] IN
       IF seq[b].st # "alive"
       THEN /\ Abort("crash: iterator of a destroyed YieldSequence", "incremented")
            /\ UNCHANGED seq
       ELSE IF r.type = "exception"
       THEN /\ seq' = [seq EXCEPT ![b].currentValue = Null, ![b].it = "end"]
            /\ coro' = [coro EXCEPT
                          ![c].stack = IF r.exc = ForcedUnwind THEN Pop(@) ELSE Raise(Pop(@), r.exc),
                          ![c].recv = NoRecv]
            /\ lastOp' = [lo EXCEPT !.out = IF r.exc = ForcedUnwind THEN "end" ELSE "raised"]
            /\ UNCHANGED <<awt, sCurrentCoro, sMasterCoroChain, aborted>>
       ELSE IF r.val = Null /\ coro[b].isRunning
       THEN /\ aborted' = "operator++: may not yield nullptr from coroutine"
            /\ seq' = [seq EXCEPT ![b].currentValue = Null]
            /\ lastOp' = [lo EXCEPT !.out = "abort"]
            /\ UNCHANGED <<coro, awt, sCurrentCoro, sMasterCoroChain>>
       ELSE /\ seq' = [seq EXCEPT ![b].currentValue = r.val,
                                  ![b].it = IF r.val = Null THEN "end" ELSE "at"]
            /\ coro' = [coro EXCEPT ![c].stack = Pop(@), ![c].recv = NoRecv]
            /\ lastOp' = [lo EXCEPT !.out = IF r.val = Null THEN "end" ELSE "value"]
            /\ UNCHANGED <<awt, sCurrentCoro, sMasterCoroChain, aborted>>

\* Coro::clear of the generator coro, run by ~Impl: the assertion it makes
Clear(cor, b) ==
    IF cor[b].isRunning THEN "Coro::clear: can't clear a running coroutine" ELSE ""

\* ~YieldSequence has finished with the generator coro: Coro::clear, delete
SeqDelete(cor, b, lo) ==
    IF Clear(cor, b) # ""
    THEN /\ aborted' = Clear(cor, b)
         /\ coro' = cor
         /\ seq' = seq
         /\ lastOp' = [lo EXCEPT !.out = "abort"]
    ELSE /\ aborted' = aborted
         /\ coro' = [cor EXCEPT ![b].st = "deleted"]
         /\ seq' = [seq EXCEPT ![b].st = "destroyed"]
         /\ lastOp' = [lo EXCEPT !.out = "destroyed"]

\* YieldSequence::~YieldSequence up to the yield inside forceUnwind(&m->coro)
SeqDestroy(c, b) ==
    /\ UNCHANGED otherThanSeq
    /\ FuncAt(c)
    /\ b \in LiveSeqs
    /\ LET lo == [LO("seqDestroy", c, b, "") EXCEPT
                     !.pre = IF coro[b].isRunning THEN "running" ELSE "finished"] IN
       IF coro[b].isRunning
       THEN /\ YieldToV(b, "exception", ForcedUnwind, Null,
                        [coro EXCEPT ![c].stack = Append(@, Frame("seqDtor", "unwinding", b))],
                        [lo EXCEPT !.out = "forceUnwind", !.e = ForcedUnwind])
            /\ UNCHANGED <<awt, sMasterCoroChain, seq>>
       ELSE /\ SeqDelete(coro, b, lo)
            /\ UNCHANGED <<awt, sCurrentCoro, sMasterCoroChain>>

\* ~YieldSequence after the yield of forceUnwind returned or threw
SeqDestroyResume(c) ==
    /\ UNCHANGED otherThanSeq
    /\ ResumedAt(c, "seqDtor", "unwinding")
    /\ LET b == Top(c).a
           r == coro[c].recv
           lo == [LO("seqDestroy", c, b, "") EXCEPT !.pre = "unwound"] IN
       IF r.type = "exception"
       THEN /\ Abort("forceUnwind: Coro may not throw on ForcedUnwind", "seqDestroy")
            /\ UNCHANGED seq
       ELSE /\ SeqDelete([coro EXCEPT ![c].stack = Pop(@), ![c].recv = NoRecv], b, lo)
            /\ UNCHANGED <<awt, sCurrentCoro, sMasterCoroChain>>

\* user code catches the exception a call raised; a generator body that catches
\* ForcedUnwind keeps running although it was told to unwind
GenCatch(c) ==
    /\ UNCHANGED otherThanSeq
    /\ aborted = ""
    /\ sCurrentCoro = c
    /\ coro[c].stack # <<>>
    /\ Top(c).k \in {"loop", "func"}
    /\ Top(c).pc = "exc"
    /\ coro' = [coro EXCEPT ![c].stack = SetTop(@, [Top(c) EXCEPT !.pc = "run", !.e = NoExc])]
    /\ seq' = IF c \in CoroAwtIds
              THEN [seq EXCEPT ![c].swallowed = @ \/ Top(c).e = ForcedUnwind]
              ELSE seq
    /\ lastOp' = Quiet
    /\ UNCHANGED <<awt, sCurrentCoro, sMasterCoroChain, aborted>>

\* ---------------------------------------------------------------- Condition
\* the awaitable a library call constructs next
FreshWait == CHOOSE a \in WaitIds : awt[a].st = "none" /\ \A b \in WaitIds : b < a => awt[b].st # "none"

\* asyncWait that gives the waiter the next id without recording it
RegisterStaleId(cn, a) ==
    [cn EXCEPT !.mWaiters = Append(@, [id |-> cn.mLastWaiterId + 1, completer |-> <<a, 1>>]),
               !.reg = Append(@, a)]

\* Condition::asyncWait: a new awaitable whose completer goes to the back of mWaiters
Register(cn, a) ==
    [cn EXCEPT !.mWaiters = Append(@, [id |-> cn.mLastWaiterId + 1, completer |-> <<a, 1>>]),
               !.mLastWaiterId = @ + 1,
               !.reg = Append(@, a)]

\* Awaitable awt; awt.takeCompleter()
WaitAwaitable(c) == [NoAwt EXCEPT !.st = "alive", !.owner = c, !.completerGuard = 1, !.gen = 1]

\* user code calls cond.asyncWait() and keeps the awaitable
AsyncWait(c) ==
    /\ UNCHANGED <<otherThanCond, queue>>
    /\ UserAt(c)
    /\ \E a \in WaitIds : awt[a].st = "none"
    /\ awt' = [awt EXCEPT ![FreshWait] = WaitAwaitable(c)]
    /\ cond' = [cond EXCEPT !["cv"] = Register(@, FreshWait)]
    /\ lastOp' = [LO("asyncWait", c, FreshWait, "pending") EXCEPT !.pos = cond["cv"].mLastWaiterId + 1]
    /\ UNCHANGED <<coro, sCurrentCoro, sMasterCoroChain, aborted>>

\* the ids of a sequence of waiters
Ids(ws) == [i \in DOMAIN ws |-> ws[i].id]

\* notifyOne that takes the front waiter without looking at its completer
FirstLiveIsFront(ws) == IF ws = <<>> THEN 0 ELSE 1

\* Condition::notifyOne, the do-while loop: the position of the first waiter whose
\* completer is not expired, 0 when the loop runs mWaiters empty
FirstLive(ws) ==
    IF \E i \in DOMAIN ws : ~Expired(ws[i].completer)
    THEN CHOOSE i \in DOMAIN ws : /\ ~Expired(ws[i].completer)
                                  /\ \A j \in 1..(i - 1) : Expired(ws[j].completer)
    ELSE 0

\* Condition::notifyOne called by the code running on sCurrentCoro, up to the
\* transfer or callback inside completer(); cor holds the caller's stack as it is
\* when notifyOne has returned
NotifyOne(k, cor, lo) ==
    LET c == sCurrentCoro
        ws == cond[k].mWaiters
        i == FirstLive(ws) IN
    IF ws = <<>>
    THEN /\ coro' = cor
         /\ lastOp' = [lo EXCEPT !.out = "empty"]
         /\ UNCHANGED <<awt, sCurrentCoro, sMasterCoroChain, aborted, cond>>
    ELSE IF i = 0
    THEN /\ coro' = cor
         /\ cond' = [cond EXCEPT ![k].mWaiters = <<>>]
         /\ lastOp' = [lo EXCEPT !.out = "none", !.s = Ids(ws)]
         /\ UNCHANGED <<awt, sCurrentCoro, sMasterCoroChain, aborted>>
    ELSE /\ cond' = [cond EXCEPT ![k].mWaiters = SubSeq(ws, i + 1, Len(ws)),
                                 ![k].done = Append(@, ws[i].id)]
         /\ sMasterCoroChain' = ChainPush(c)
         /\ AwaitableDone(awt,
                          [cor EXCEPT ![c].stack =
                              Append(@, [Frame("notifyOne", "called", ws[i].completer[1]) EXCEPT
                                            !.p = Pushed(c), !.v = k])],
                          ws[i].completer[1], NoExc, "completer",
                          [lo EXCEPT !.out = "completed", !.a = ws[i].completer[1],
                                     !.pos = ws[i].id, !.s = Ids(SubSeq(ws, 1, i - 1))])

\* user code calls cond.notifyOne()
CondNotifyOne(c) ==
    /\ UNCHANGED <<otherThanCond, queue>>
    /\ UserAt(c)
    /\ NotifyOne("cv", coro, [LO("notifyOne", c, Null, "") EXCEPT !.v = "cv"])

\* Condition::notifyOne after completer() returned: ~PushMasterCoro, return
NotifyOneReturn(c) ==
    /\ UNCHANGED <<otherThanCond, queue>>
    /\ ResumedAt(c, "notifyOne", "called")
    /\ LET f == Top(c) IN
       IF ChainPopFails(sMasterCoroChain, f.p)
       THEN Abort("~PushMasterCoro: not in master coro chain", "notifyOne") /\ UNCHANGED cond
       ELSE /\ sMasterCoroChain' = ChainPop(sMasterCoroChain, f.p)
            /\ coro' = [coro EXCEPT ![c].stack = Pop(@)]
            /\ lastOp' = [LO("notifyOne", c, f.a, "returned") EXCEPT !.v = f.v]
            /\ UNCHANGED <<awt, sCurrentCoro, aborted, cond>>

\* notifyAll whose loop goes on while there are waiters
EligibleAll(ws, maxId, first) == DOMAIN ws

\* Condition::notifyAll: the waiters the loop pops before it calls a completer
\* that is not expired or stops; the first iteration of the do-while is unconditional
Eligible(ws, maxId, first) ==
    {i \in DOMAIN ws : \A j \in 1..i : (first /\ j = 1) \/ ws[j].id <= maxId}

\* the loop of Condition::notifyAll from its next iteration to the next completer
\* that is not expired, or to the end of the loop and ~PushMasterCoro; cor holds
\* the stack of the caller of notifyAll, p is mPushedCoro of the guard
NotifyAllRun(k, cor, p, maxId, snap, first, lo) ==
    LET c == sCurrentCoro
        ws == cond[k].mWaiters
        E == Eligible(ws, maxId, first)
        L == {i \in E : ~Expired(ws[i].completer)}
        chain == IF first /\ p # Null THEN Append(sMasterCoroChain, p) ELSE sMasterCoroChain IN
    IF E # {} /\ chain[Len(chain)] # c
    THEN Abort("Completer: currentCoro() == masterCoro()", "notifyAll") /\ UNCHANGED cond
    ELSE IF L = {}
    THEN IF ChainPopFails(chain, p)
         THEN Abort("~PushMasterCoro: not in master coro chain", "notifyAll") /\ UNCHANGED cond
         ELSE /\ coro' = cor
              /\ cond' = [cond EXCEPT ![k].mWaiters = SubSeq(ws, Cardinality(E) + 1, Len(ws))]
              /\ sMasterCoroChain' = ChainPop(chain, p)
              /\ lastOp' = [lo EXCEPT !.out = "returned", !.s = snap, !.w = maxId]
              /\ UNCHANGED <<awt, sCurrentCoro, aborted>>
    ELSE LET i == CHOOSE x \in L : \A y \in L : x <= y IN
         /\ cond' = [cond EXCEPT ![k].mWaiters = SubSeq(ws, i + 1, Len(ws)),
                                 ![k].done = Append(@, ws[i].id)]
         /\ sMasterCoroChain' = chain
         /\ AwaitableDone(awt,
                          [cor EXCEPT ![c].stack =
                              Append(@, [Frame("notifyAll", "called", ws[i].completer[1]) EXCEPT
                                            !.p = p, !.v = k, !.n = maxId, !.s = snap])],
                          ws[i].completer[1], NoExc, "completer",
                          [lo EXCEPT !.out = "completed", !.a = ws[i].completer[1],
                                     !.pos = ws[i].id, !.s = snap, !.w = maxId])

\* user code calls cond.notifyAll()
CondNotifyAll(c) ==
    /\ UNCHANGED <<otherThanCond, queue>>
    /\ UserAt(c)
    /\ LET cn == cond["cv"]
           ws == cn.mWaiters
           lo == [LO("notifyAll", c, Null, "") EXCEPT !.v = "cv"] IN
       IF ws = <<>>
       THEN /\ lastOp' = [lo EXCEPT !.out = "empty"]
            /\ UNCHANGED <<coro, awt, sCurrentCoro, sMasterCoroChain, aborted, cond>>
       ELSE IF ws[Len(ws)].id # cn.mLastWaiterId
       THEN Abort("notifyAll: mWaiters.back().id == maxId", "notifyAll") /\ UNCHANGED cond
       ELSE IF ws[1].id > cn.mLastWaiterId
       THEN Abort("notifyAll: mWaiters.front().id <= maxId", "notifyAll") /\ UNCHANGED cond
       ELSE NotifyAllRun("cv", coro, Pushed(c), cn.mLastWaiterId, Ids(ws), TRUE, lo)

\* Condition::notifyAll after a completer() returned: test the loop condition and
\* go on, or leave through ~PushMasterCoro
NotifyAllStep(c) ==
    /\ UNCHANGED <<otherThanCond, queue>>
    /\ ResumedAt(c, "notifyAll", "called")
    /\ LET f == Top(c) IN
       NotifyAllRun(f.v, [coro EXCEPT ![c].stack = Pop(@)], f.p, f.n, f.s, FALSE,
                    [LO("notifyAll", c, Null, "") EXCEPT !.v = f.v])

\* ------------------------------------------------------------- BoundedQueue
\* BoundedQueue::BoundedQueue(maxSize), on the host loop
QueueNew(n) ==
    /\ UNCHANGED <<otherThanCond, cond>>
    /\ UserAt(MainCoro)
    /\ queue.st = "none"
    /\ queue' = [queue EXCEPT !.st = "alive", !.mMaxSize = n]
    /\ lastOp' = Quiet
    /\ UNCHANGED <<coro, awt, sCurrentCoro, sMasterCoroChain, aborted>>

\* the frame of asyncPush / asyncPop while its notifyOne is running
OpFrame(op) == [Frame("asyncOp", "notified", Null) EXCEPT !.v = op]

\* an asyncPush that takes the immediate path also when the queue is full
HasRoomAlways(q) == TRUE

\* BoundedQueue::asyncPush: mQueue.size() < mMaxSize
HasRoom(q) == Len(q.mQueue) < q.mMaxSize

\* a pending path that also inserts the value of a push at once
WaitWithInsert(c, k, kind, v, lo) ==
    /\ \E a \in WaitIds : awt[a].st = "none"
    /\ awt' = [awt EXCEPT ![FreshWait] = [WaitAwaitable(c) EXCEPT !.nslots = 1]]
    /\ cond' = [cond EXCEPT ![k] = Register(@, FreshWait)]
    /\ queue' = [queue EXCEPT !.cb[FreshWait] = [k |-> kind, value |-> v, ran |-> FALSE],
                              !.pushes = IF kind = "push" THEN @ + 1 ELSE @,
                              !.mQueue = IF kind = "push" THEN Append(@, v) ELSE @]
    /\ lastOp' = [lo EXCEPT !.out = "pending", !.a = FreshWait]
    /\ UNCHANGED <<coro, sCurrentCoro, sMasterCoroChain, aborted>>

\* the pending path of asyncPush / asyncPop: asyncWait on the condition k and
\* connectToDoneLite of the callback
WaitWith(c, k, kind, v, lo) ==
    /\ \E a \in WaitIds : awt[a].st = "none"
    /\ awt' = [awt EXCEPT ![FreshWait] = [WaitAwaitable(c) EXCEPT !.nslots = 1]]
    /\ cond' = [cond EXCEPT ![k] = Register(@, FreshWait)]
    /\ queue' = [queue EXCEPT !.cb[FreshWait] = [k |-> kind, value |-> v, ran |-> FALSE],
                              !.pushes = IF kind = "push" THEN @ + 1 ELSE @]
    /\ lastOp' = [lo EXCEPT !.out = "pending", !.a = FreshWait]
    /\ UNCHANGED <<coro, sCurrentCoro, sMasterCoroChain, aborted>>

\* BoundedQueue::asyncPush(value) up to the return of the pending awaitable or to
\* the transfer inside mCondPoppable.notifyOne()
AsyncPush(c) ==
    /\ UNCHANGED otherThanCond
    /\ UserAt(c)
    /\ queue.st = "alive"
    /\ LET v == queue.pushes + 1
           lo == [LO("asyncPush", c, Null, "") EXCEPT
                     !.w = v, !.pre = IF Len(queue.mQueue) < queue.mMaxSize THEN "room" ELSE "full"] IN
       IF HasRoom(queue)
       THEN /\ queue' = [queue EXCEPT !.mQueue = Append(@, v), !.pushes = v]
            /\ NotifyOne("mCondPoppable",
                         [coro EXCEPT ![c].stack = Append(@, OpFrame("asyncPush"))], lo)
       ELSE WaitWith(c, "mCondPushable", "push", v, lo)

\* BoundedQueue::asyncPop(outValue) up to the return of the pending awaitable or
\* to the transfer inside mCondPushable.notifyOne()
AsyncPop(c) ==
    /\ UNCHANGED otherThanCond
    /\ UserAt(c)
    /\ queue.st = "alive"
    /\ LET lo == [LO("asyncPop", c, Null, "") EXCEPT
                     !.pre = IF queue.mQueue # <<>> THEN "values" ELSE "empty"] IN
       IF queue.mQueue # <<>>
       THEN /\ queue' = [queue EXCEPT !.mQueue = Tail(@), !.got = Append(@, Head(queue.mQueue))]
            /\ NotifyOne("mCondPushable",
                         [coro EXCEPT ![c].stack = Append(@, OpFrame("asyncPop"))],
                         [lo EXCEPT !.w = Head(queue.mQueue)])
       ELSE WaitWith(c, "mCondPoppable", "pop", 0, lo)

\* an immediate asyncPush / asyncPop that returns an awaitable nobody completed
MakePending(c) == [NoAwt EXCEPT !.st = "alive", !.owner = c]

\* Awaitable::makeCompleted, by its name and its use: the source of this revision
\* of Awaitable is not among the files, so that the awaitable is constructed
\* completed, with no awaiter and no slots, is taken from the callers
MakeCompleted(c) == [NoAwt EXCEPT !.st = "alive", !.owner = c, !.didComplete = TRUE]

\* asyncPush / asyncPop after notifyOne returned: return Awaitable::makeCompleted()
QueueOpReturn(c) ==
    /\ UNCHANGED <<otherThanCond, cond, queue>>
    /\ ResumedAt(c, "asyncOp", "notified")
    /\ \E a \in WaitIds : awt[a].st = "none"
    /\ awt' = [awt EXCEPT ![FreshWait] = MakeCompleted(c)]
    /\ coro' = [coro EXCEPT ![c].stack = Pop(@)]
    /\ lastOp' = LO(Top(c).v, c, FreshWait, "returned")
    /\ UNCHANGED <<sCurrentCoro, sMasterCoroChain, aborted>>

\* the done signal of an awaitable the queue handed out invokes the callback that
\* asyncPush / asyncPop connected
QueueSlot(c) ==
    /\ UNCHANGED otherThanCond
    /\ ResumedAt(c, "complete", "emit")
    /\ LET f == Top(c)
           a == f.a
           cor == [coro EXCEPT ![c].stack = SetTop(@, [f EXCEPT !.n = f.n + 1])]
           lo == [LO("callback", c, a, "") EXCEPT !.pre = IF didFail(a) THEN "failed" ELSE "completed"] IN
       /\ a \in WaitIds
       /\ f.n <= awt[a].nslots
       /\ queue.cb[a].k # "none"
       /\ IF didFail(a)
          THEN /\ coro' = cor
               /\ lastOp' = [lo EXCEPT !.out = "skipped"]
               /\ UNCHANGED <<awt, sCurrentCoro, sMasterCoroChain, aborted, cond, queue>>
          ELSE IF queue.cb[a].k = "push"
          THEN IF ~(Len(queue.mQueue) < queue.mMaxSize)
               THEN Abort("asyncPush: mQueue.size() < mMaxSize", "callback") /\ UNCHANGED <<cond, queue>>
               ELSE /\ queue' = [queue EXCEPT !.mQueue = Append(@, queue.cb[a].value),
                                              !.cb[a].ran = TRUE]
                    /\ NotifyOne("mCondPoppable", cor, [lo EXCEPT !.v = "push", !.w = queue.cb[a].value])
          ELSE IF queue.mQueue = <<>>
               THEN Abort("asyncPop: !mQueue.empty()", "callback") /\ UNCHANGED <<cond, queue>>
               ELSE /\ queue' = [queue EXCEPT !.mQueue = Tail(@),
                                              !.got = Append(@, Head(queue.mQueue)),
                                              !.cb[a].ran = TRUE]
                    /\ NotifyOne("mCondPushable", cor, [lo EXCEPT !.v = "pop", !.w = Head(queue.mQueue)])

\* ---------------------------------------------------------------- scheduler
ActionIds == 1..MaxSched
\* the Ticket variables user code keeps
TicketVars == 1..MaxSched

Pending(n) == \E i \in DOMAIN schedQueue : schedQueue[i] = n

\* a shared_ptr<Action> owner lets go of action m: tk is the ticket table after
\* the change; the Action is destroyed with its last owner
ReleasedCell(m, tk) ==
    IF m # Null /\ running # m /\ \A j \in TicketVars : tk[j] # m THEN "freed" ELSE cell[m]

ReleasedHist(m, tk) ==
    IF m # Null /\ Pending(m) /\ \A j \in TicketVars : tk[j] # m
    THEN [hist[m] EXCEPT !.dropped = TRUE]
    ELSE hist[m]

\* t = scheduleWithTicket(action): the WeakAction is handed to the hook, the
\* returned Ticket is move-assigned to the Ticket variable j
ScheduleWithTicket(j) ==
    /\ UNCHANGED <<coreVars, libVars>>
    /\ \E n \in ActionIds :
         /\ cell[n] = "none"
         /\ \A k \in ActionIds : k < n => cell[k] # "none"
         /\ LET m == ticket[j]
                tk == [ticket EXCEPT ![j] = n] IN
            /\ schedQueue' = Append(schedQueue, n)
            /\ ticket' = tk
            /\ cell' = [x \in ActionIds |->
                          IF x = n THEN "live" ELSE IF x = m THEN ReleasedCell(m, tk) ELSE cell[x]]
            /\ hist' = [x \in ActionIds |-> IF x = m THEN ReleasedHist(m, tk) ELSE hist[x]]
    /\ UNCHANGED running

\* Ticket::reset, Ticket::~Ticket
TicketReset(j) ==
    /\ UNCHANGED <<coreVars, libVars>>
    /\ LET m == ticket[j]
           tk == [ticket EXCEPT ![j] = Null] IN
       /\ ticket' = tk
       /\ cell' = [x \in ActionIds |-> IF x = m THEN ReleasedCell(m, tk) ELSE cell[x]]
       /\ hist' = [x \in ActionIds |-> IF x = m THEN ReleasedHist(m, tk) ELSE hist[x]]
    /\ UNCHANGED <<schedQueue, running>>

\* Ticket::operator=(Ticket&&): k = std::move(j)
TicketMove(j, k) ==
    /\ UNCHANGED <<coreVars, libVars>>
    /\ j # k
    /\ ticket[j] # Null
    /\ LET m == ticket[k]
           tk == [ticket EXCEPT ![k] = ticket[j], ![j] = Null] IN
       /\ ticket' = tk
       /\ cell' = [x \in ActionIds |-> IF x = m THEN ReleasedCell(m, tk) ELSE cell[x]]
       /\ hist' = [x \in ActionIds |-> IF x = m THEN ReleasedHist(m, tk) ELSE hist[x]]
    /\ UNCHANGED <<schedQueue, running>>

\* a WeakAction that keeps the Action alive (a shared_ptr instead of a weak_ptr)
LocksAlways(n) == TRUE

\* weak_ptr::lock in WeakAction::operator(): the shared Action still exists
Locks(n) == cell[n] \in {"live", "empty"}

\* the host loop takes the next WeakAction and invokes it: WeakAction::operator()
\* up to the call of the action
Dispatch ==
    /\ UNCHANGED <<coreVars, libVars>>
    /\ running = Null
    /\ schedQueue # <<>>
    /\ LET n == Head(schedQueue) IN
       /\ schedQueue' = Tail(schedQueue)
       /\ IF Locks(n)
          THEN /\ running' = n
               /\ hist' = [hist EXCEPT ![n].runs = @ + 1]
          ELSE /\ running' = Null
               /\ hist' = [hist EXCEPT ![n].dispatched = TRUE]
    /\ UNCHANGED <<cell, ticket>>

\* the action returns: WeakAction::operator() empties the functor and lets go of
\* the shared_ptr it locked
DispatchEnd ==
    /\ UNCHANGED <<coreVars, libVars>>
    /\ running # Null
    /\ LET n == running IN
       /\ cell' = [cell EXCEPT ![n] = IF \E j \in TicketVars : ticket[j] = n
                                      THEN "empty" ELSE "freed"]
       /\ hist' = [hist EXCEPT ![n].dispatched = TRUE]
    /\ running' = Null
    /\ UNCHANGED <<schedQueue, ticket>>

SchedNext ==
    \/ \E j \in TicketVars : ScheduleWithTicket(j)
    \/ \E j \in TicketVars : TicketReset(j)
    \/ \E j, k \in TicketVars : TicketMove(j, k)
    \/ Dispatch
    \/ DispatchEnd

\* user code that calls await, never awaitAny: every yield of a started coro goes to
\* its master or parent, so the yieldTo(coro) of startAsync is never resumed with an
\* exception and StartAsyncUnwind / StartAsyncRaise have no step here (AnyNext has)
CoreNext ==
    \/ NewAwaitable
    \/ \E a \in AwtIds : TakeCompleter(a)
    \/ \E a \in AwtIds : ConnectToDone(a)
    \/ \E h \in AwtIds \X (1..2) : CompleterInvoke(h, NoExc)
    \/ \E h \in AwtIds \X (1..2) : CompleterInvoke(h, HostExc)
    \/ \E c \in CoroIds : EmitSlot(c)
    \/ \E c \in CoroIds : CompleteFinish(c)
    \/ \E c \in CoroIds : CompleteReturn(c)
    \/ \E c \in CoroAwtIds, a \in AwtIds : Await(c, a)
    \/ \E c \in CoroAwtIds : AwaitResume(c)
    \/ \E c \in CoroIds, a \in AwtIds : Destroy(c, a)
    \/ \E c \in CoroIds : DtorResume(c)
    \/ \E c \in CoroIds : DtorEnd(c)
    \/ \E c \in CoroIds : StartAsync(c)
    \/ \E c \in CoroAwtIds : CoroEnter(c)
    \/ \E c \in CoroIds : StartAsyncReturn(c)
    \/ \E c \in CoroAwtIds : BodyReturn(c)
    \/ \E c \in CoroAwtIds : BodyThrow(c, BodyExc)
    \/ \E c \in CoroAwtIds : BodyCatch(c)
    \/ \E c \in CoroAwtIds : BodyPropagate(c)
    \/ \E c \in CoroAwtIds : BodyCleanup(c)
    \/ \E c \in CoroAwtIds : LambdaFinish(c)
    \/ \E c \in CoroAwtIds : CoroFinish(c)

Next == CoreNext

\* user code that also calls awaitAny (and connects no slots)
AnyNext ==
    \/ NewAwaitable
    \/ \E a \in AwtIds : TakeCompleter(a)
    \/ \E h \in AwtIds \X (1..2) : CompleterInvoke(h, NoExc)
    \/ \E h \in AwtIds \X (1..2) : CompleterInvoke(h, HostExc)
    \/ \E c \in CoroIds : CompleteFinish(c)
    \/ \E c \in CoroIds : CompleteReturn(c)
    \/ \E c \in CoroAwtIds, a \in AwtIds : Await(c, a)
    \/ \E c \in CoroAwtIds : AwaitResume(c)
    \/ \E c \in CoroAwtIds : AwaitAnyCall(c)
    \/ \E c \in CoroAwtIds : AwaitAnyResume(c)
    \/ \E c \in CoroIds, a \in AwtIds : Destroy(c, a)
    \/ \E c \in CoroIds : DtorResume(c)
    \/ \E c \in CoroIds : DtorEnd(c)
    \/ \E c \in CoroIds : StartAsync(c)
    \/ \E c \in CoroAwtIds : CoroEnter(c)
    \/ \E c \in CoroIds : StartAsyncReturn(c)
    \/ \E c \in CoroIds : StartAsyncUnwind(c)
    \/ \E c \in CoroIds : StartAsyncRaise(c)
    \/ \E c \in CoroAwtIds : BodyReturn(c)
    \/ \E c \in CoroAwtIds : BodyThrow(c, BodyExc)
    \/ \E c \in CoroAwtIds : BodyCatch(c)
    \/ \E c \in CoroAwtIds : BodyPropagate(c)
    \/ \E c \in CoroAwtIds : BodyCleanup(c)
    \/ \E c \in CoroAwtIds : LambdaFinish(c)
    \/ \E c \in CoroAwtIds : CoroFinish(c)

\* ------------------------------------------------------------- idle actions
\* idle.sIdleActions is the deque of Coro.cpp, an action being its number in
\* posting order; idle.sIsRunningIdleActions is the static flag of implYieldTo.
\* posted, ran (the actions invoked, in order, with the coro they ran on), threw
\* are history.  sender is the coro whose implYieldTo frame holds the YieldValue
\* that main's draining implYieldTo still has to unpack, stale tells whether
\* that coro was resumed since.

\* user code of the main program, of a Coro::Func or of an idle action is running
IdleAt(c) ==
    /\ aborted = ""
    /\ sCurrentCoro = c
    /\ coro[c].stack # <<>>
    /\ Top(c).k \in {"loop", "func", "action"}
    /\ Top(c).pc = "run"

\* postIdleAction(action)
PostIdleAction(c) ==
    /\ UNCHANGED <<schedVars, seq, pool, sig, cond, queue>>
    /\ IdleAt(c)
    /\ idle.posted < MaxIdle
    /\ IF c = mainCoro
       THEN /\ Abort("postIdleAction: can't post idle action from main coroutine",
                     "postIdleAction")
            /\ UNCHANGED idle
       ELSE /\ idle' = [idle EXCEPT !.sIdleActions = Append(@, idle.posted + 1),
                                    !.posted = @ + 1]
            /\ lastOp' = LO("postIdleAction", c, idle.posted + 1, "posted")
            /\ UNCHANGED <<coro, awt, sCurrentCoro, sMasterCoroChain, aborted>>

\* yieldTo(resumeCoro) called by user code or by an idle action: implYieldTo up
\* to the jump
IdleYieldTo(c, t) ==
    /\ UNCHANGED <<schedVars, seq, pool, sig, cond, queue>>
    /\ IdleAt(c)
    /\ YieldTo(t, "result", NoExc,
               [coro EXCEPT ![c].stack = Append(@, Frame("yield", "yielded", Null))],
               [LO("yieldTo", c, Null, "transfer") EXCEPT !.pre = "result"])
    /\ idle' = [idle EXCEPT !.stale = @ \/ (/\ idle.sIsRunningIdleActions
                                            /\ aborted' = ""
                                            /\ sCurrentCoro' = idle.sender)]
    /\ UNCHANGED <<awt, sMasterCoroChain>>

\* the do-while loop of implYieldTo takes the front action and invokes it
RunFront(stk, idl) ==
    /\ coro' = [coro EXCEPT ![sCurrentCoro].stack =
                   Append(stk, Frame("action", "run", idl.sIdleActions[1])),
                             ![sCurrentCoro].recv = NoRecv]
    /\ idle' = [idl EXCEPT !.sIdleActions = Tail(@),
                           !.ran = Append(@, [id |-> idl.sIdleActions[1], on |-> sCurrentCoro])]
    /\ lastOp' = LO("idleAction", sCurrentCoro, idl.sIdleActions[1], "invoked")
    /\ UNCHANGED <<awt, sCurrentCoro, sMasterCoroChain, aborted>>

\* return unpackYieldValue(*yReceived): f is the implYieldTo frame, stk the stack
\* below it, r the payload
Unpack(c, stk, r, idl) ==
    /\ coro' = [coro EXCEPT
                  ![c].stack = IF r.type = "exception" THEN Raise(stk, r.exc) ELSE stk,
                  ![c].recv = NoRecv]
    /\ idle' = idl
    /\ lastOp' = [LO("resume", c, Null,
                     IF r.type = "exception" THEN "raised" ELSE "returned") EXCEPT
                     !.e = r.exc, !.w = r.val, !.pre = r.type, !.v = "yield"]
    /\ UNCHANGED <<awt, sCurrentCoro, sMasterCoroChain, aborted>>

\* implYieldTo after the jump came back: on the main coro, with actions queued
\* and no drain in progress, the drain starts; otherwise the payload is unpacked
IdleLand(c) ==
    /\ UNCHANGED <<schedVars, seq, pool, sig, cond, queue>>
    /\ ResumedAt(c, "yield", "yielded")
    /\ IF c = mainCoro /\ idle.sIdleActions # <<>> /\ ~idle.sIsRunningIdleActions
       THEN LET r == coro[c].recv
                f == [Top(c) EXCEPT !.pc = "draining", !.v = r.type, !.e = r.exc, !.n = r.val]
            IN  RunFront(SetTop(coro[c].stack, f),
                         [idle EXCEPT !.sIsRunningIdleActions = TRUE,
                                      !.sender = lastOp.c, !.stale = FALSE])
       ELSE Unpack(c, Pop(coro[c].stack), coro[c].recv, idle)

\* an idle action returns: the loop goes on with the next action, or ends, the
\* flag is reset and the payload is unpacked.  yReceived points into the frame of
\* the coro that yielded to main: when an action resumed that coro the frame is
\* gone and the read is undefined (the payload as sent, or a crash)
ActionReturn(c) ==
    /\ UNCHANGED <<schedVars, seq, pool, sig, cond, queue>>
    /\ ResumedAt(c, "action", "run")
    /\ LET stk == Pop(coro[c].stack)
           f   == stk[Len(stk)]
       IN  IF idle.sIdleActions # <<>>
           THEN RunFront(stk, idle)
           ELSE \/ Unpack(c, Pop(stk), [type |-> f.v, exc |-> f.e, val |-> f.n],
                          [idle EXCEPT !.sIsRunningIdleActions = FALSE])
                \/ /\ idle.stale
                   /\ Abort("crash: yield value read from a frame that is gone", "resume")
                   /\ idle' = [idle EXCEPT !.sIsRunningIdleActions = FALSE]

\* an idle action throws: the exception leaves the loop and implYieldTo, and
\* sIsRunningIdleActions stays as it is
ActionThrow(c, e) ==
    /\ UNCHANGED <<schedVars, seq, pool, sig, cond, queue>>
    /\ ResumedAt(c, "action", "run")
    /\ coro' = [coro EXCEPT ![c].stack = Raise(Pop(Pop(@)), e)]
    /\ idle' = [idle EXCEPT !.threw = TRUE]
    /\ lastOp' = [LO("idleAction", c, Top(c).a, "raised") EXCEPT !.e = e]
    /\ UNCHANGED <<awt, sCurrentCoro, sMasterCoroChain, aborted>>

\* user code that uses coroutines directly: Coro, yield, yieldTo, yieldException,
\* yieldExceptionTo, setParent and forceUnwind, without awaitables
CoroNext ==
    \/ \E c \in CoroIds : NewCoro(c)
    \/ \E c, p \in CoroIds, b \in CoroAwtIds : SetParent(c, b, p)
    \/ \E c, t \in CoroIds, v \in Values : CoroYieldTo(c, t, "result", NoExc, v)
    \/ \E c, t \in CoroIds : CoroYieldTo(c, t, "exception", HostExc, Null)
    \/ \E c \in CoroIds, v \in Values : CoroYield(c, v)
    \/ \E c \in CoroIds : CoroYieldException(c, HostExc)
    \/ \E c \in CoroIds, b \in CoroAwtIds : ForceUnwind(c, b)
    \/ \E c \in CoroIds : ForceUnwindResume(c)
    \/ \E c \in CoroIds : CoroResume(c)
    \/ \E c \in CoroAwtIds : FuncEnter(c)
    \/ \E c \in CoroAwtIds : FuncThrow(c, BodyExc)
    \/ \E c \in CoroIds : FuncCatch(c)
    \/ \E c \in CoroAwtIds : FuncEnd(c)

\* user code that posts idle actions from coros; the actions return, throw or
\* yield to a coro
IdleNext ==
    \/ \E c \in CoroIds : NewCoro(c)
    \/ \E c \in CoroIds : PostIdleAction(c)
    \/ \E c, t \in CoroIds : IdleYieldTo(c, t)
    \/ \E c \in CoroIds : IdleLand(c)
    \/ \E c \in CoroIds : ActionReturn(c)
    \/ \E c \in CoroIds : ActionThrow(c, HostExc)
    \/ \E c \in CoroAwtIds : FuncEnter(c)
    \/ \E c \in CoroIds : FuncCatch(c)
    \/ \E c \in CoroAwtIds : FuncEnd(c)

\* user code that makes generators: YieldSequence, its iterator, and generator
\* bodies that yield values or exceptions to their parent
SeqNext ==
    \/ \E c \in CoroIds : SeqNew(c)
    \/ \E c \in CoroIds, b \in CoroAwtIds : SeqBegin(c, b)
    \/ \E c \in CoroIds, b \in CoroAwtIds : SeqIncrement(c, b)
    \/ \E c \in CoroIds : SeqIncrementResume(c)
    \/ \E c \in CoroIds, b \in CoroAwtIds : SeqDestroy(c, b)
    \/ \E c \in CoroIds : SeqDestroyResume(c)
    \/ \E c \in CoroAwtIds, v \in Values : CoroYield(c, v)
    \/ \E c \in CoroAwtIds : CoroYieldException(c, HostExc)
    \/ \E c \in CoroAwtIds : CoroResume(c)
    \/ \E c \in CoroAwtIds : FuncEnter(c)
    \/ \E c \in CoroAwtIds : FuncThrow(c, BodyExc)
    \/ \E c \in CoroIds : GenCatch(c)
    \/ \E c \in CoroAwtIds : FuncEnd(c)

\* user code that makes and destroys Coro objects with stacks of several sizes
PoolNext ==
    \/ \E k \in PoolCoros, n \in StackSizes : CoroNew(k, n)
    \/ \E k \in PoolCoros : CoroClear(k)
    \/ DrainStackPool

\* user code that connects slots to a signal, disconnects them and emits it; the
\* slots connect, disconnect, destroy the signal, emit, return or throw
SigNext ==
    \/ Connect(FALSE)
    \/ Connect(TRUE)
    \/ \E h \in HookIds : Disconnect(h)
    \/ DisconnectAll
    \/ SignalDestroy
    \/ Emit
    \/ EmitNext
    \/ SlotReturn
    \/ SlotThrow
    \/ EmitEnd

Spec == Init /\ [][Next]_vars

CoroSpec == Init /\ [][CoroNext]_vars

SeqSpec == Init /\ [][SeqNext]_vars

PoolSpec == Init /\ [][PoolNext]_vars

IdleSpec == Init /\ [][IdleNext]_vars

SigSpec == Init /\ [][SigNext]_vars

\* user code that shares a Condition between the host loop and start_async coros
CondNext ==
    \/ \E c \in CoroIds : AsyncWait(c)
    \/ \E c \in CoroIds : CondNotifyOne(c)
    \/ \E c \in CoroIds : NotifyOneReturn(c)
    \/ \E c \in CoroIds : CondNotifyAll(c)
    \/ \E c \in CoroIds : NotifyAllStep(c)
    \/ \E c \in CoroIds : CompleteFinish(c)
    \/ \E c \in CoroIds : CompleteReturn(c)
    \/ \E c \in CoroAwtIds, a \in AwtIds : Await(c, a)
    \/ \E c \in CoroAwtIds : AwaitResume(c)
    \/ \E c \in CoroIds, a \in AwtIds : Destroy(c, a)
    \/ \E c \in CoroIds : DtorResume(c)
    \/ \E c \in CoroIds : DtorEnd(c)
    \/ \E c \in CoroIds : StartAsync(c)
    \/ \E c \in CoroAwtIds : CoroEnter(c)
    \/ \E c \in CoroIds : StartAsyncReturn(c)
    \/ \E c \in CoroAwtIds : BodyReturn(c)
    \/ \E c \in CoroAwtIds : BodyPropagate(c)
    \/ \E c \in CoroAwtIds : BodyCleanup(c)
    \/ \E c \in CoroAwtIds : LambdaFinish(c)
    \/ \E c \in CoroAwtIds : CoroFinish(c)

CondSpec == Init /\ [][CondNext]_vars

\* producers and consumers (the host loop and start_async coros) on one BoundedQueue
QueueNext ==
    \/ \E n \in 0..MaxQueueSize : QueueNew(n)
    \/ \E c \in CoroIds : AsyncPush(c)
    \/ \E c \in CoroIds : AsyncPop(c)
    \/ \E c \in CoroIds : QueueOpReturn(c)
    \/ \E c \in CoroIds : QueueSlot(c)
    \/ \E c \in CoroIds : NotifyOneReturn(c)
    \/ \E c \in CoroIds : CompleteFinish(c)
    \/ \E c \in CoroIds : CompleteReturn(c)
    \/ \E c \in CoroAwtIds, a \in AwtIds : Await(c, a)
    \/ \E c \in CoroAwtIds : AwaitResume(c)
    \/ \E c \in CoroIds, a \in AwtIds : Destroy(c, a)
    \/ \E c \in CoroIds : DtorResume(c)
    \/ \E c \in CoroIds : DtorEnd(c)
    \/ \E c \in CoroIds : StartAsync(c)
    \/ \E c \in CoroAwtIds : CoroEnter(c)
    \/ \E c \in CoroIds : StartAsyncReturn(c)
    \/ \E c \in CoroAwtIds : BodyReturn(c)
    \/ \E c \in CoroAwtIds : BodyPropagate(c)
    \/ \E c \in CoroAwtIds : BodyCleanup(c)
    \/ \E c \in CoroAwtIds : LambdaFinish(c)
    \/ \E c \in CoroAwtIds : CoroFinish(c)

QueueSpec == Init /\ [][QueueNext]_vars

AnySpec == Init /\ [][AnyNext]_vars

SchedSpec == Init /\ [][SchedNext]_vars

\* ===================================================================== C1
\* C1: over any sequence of complete() and fail() calls on the copies of an
\* awaitable's completer only the first changes the awaitable: a call made when
\* the awaitable is done is a no-op, an awaitable is never both completed and
\* failed, and a done awaitable keeps its outcome for as long as it exists.
C1_NoOpWhenDone ==
    /\ \A a \in AwtIds : ~(awt[a].didComplete /\ awt[a].exceptionPtr # NoExc)
    /\ (lastOp.op = "Completer" /\ lastOp.pre = "done")
          => (lastOp.out = "noop" /\ aborted = "")

C1_DoneIsFinal ==
    \A a \in AwtIds :
       (awt[a].st = "alive" /\ isDone(a) /\ awt'[a].st = "alive")
          => /\ awt'[a].didComplete = awt[a].didComplete
             /\ awt'[a].exceptionPtr = awt[a].exceptionPtr

C1_FirstCallOnly == [](C1_NoOpWhenDone) /\ [][C1_DoneIsFinal]_vars

\* a completed awaitable on which fail() was then invoked through the completer
C1_Witness ==
    /\ lastOp.op = "Completer" /\ lastOp.pre = "done"
    /\ lastOp.out = "noop" /\ lastOp.e = HostExc
    /\ awt[lastOp.a].st = "alive" /\ awt[lastOp.a].didComplete

\* ===================================================================== C2
\* the destructor of an awaitable whose forceUnwind(boundCoro) has just returned
InDtorAfterUnwind(c) == ResumedAt(c, "dtor", "unwinding")

\* C2: when an awaitable made by startAsync is destroyed while its bound coro is
\* unfinished, the destructor resumes the coro with ForcedUnwind, exactly once;
\* when control is back in the destructor the coro has unwound (is not running)
\* and still exists, and it is deleted only after that, unwound.  The same
\* holds for a destructor that runs inside a coro being unwound (nested).
C2_ForcedUnwindOnce ==
    /\ \A b \in CoroAwtIds : coro[b].fu <= 1
    /\ \A c \in CoroIds :
          InDtorAfterUnwind(c) =>
             LET b == awt[Top(c).a].boundCoro IN
             /\ coro[c].recv.type = "result"
             /\ b # Null /\ coro[b].st = "alive"
             /\ ~coro[b].isRunning
             /\ coro[b].fu = 1
             /\ didFail(Top(c).a) /\ awt[Top(c).a].exceptionPtr = ForcedUnwind
    /\ aborted \notin {"~Awaitable: !boundCoro->isRunning()",
                        "forceUnwind: Coro may not throw on ForcedUnwind"}
    /\ (lastOp.op = "destroy" /\ lastOp.pre = "unwound" /\ lastOp.out = "destroyed")
          => coro[lastOp.a].st = "deleted"

\* the nested case: a coro that is itself being unwound by the host's destructor
\* has cancelled the coro it had started, and is back in that inner destructor
C2_Witness ==
    \E c \in CoroAwtIds :
       /\ InDtorAfterUnwind(c)
       /\ coro[c].fu = 1
       /\ coro[Top(c).a].fu = 1 /\ ~coro[Top(c).a].isRunning
       /\ Top(MainCoro).k = "dtor" /\ Top(MainCoro).pc = "unwinding" /\ Top(MainCoro).a = c

\* ===================================================================== C3
\* a coro made by startAsync whose body has ended and which has unwound
Finished(b) == coro[b].st = "alive" /\ coro[b].entered = 1 /\ ~coro[b].isRunning

\* C3: when the body passed to startAsync returns, the awaitable ends completed;
\* when it exits with an exception E the awaitable ends failed and stores
\* exactly E, whether the body threw E itself or got it from awaiting a failed
\* awaitable; await on the awaitable then returns, or raises exactly E.
C3_BodyOutcome ==
    /\ \A b \in CoroAwtIds :
          Finished(b) =>
             /\ coro[b].exitWith = NoExc => (didComplete(b) /\ ~didFail(b))
             /\ coro[b].exitWith # NoExc =>
                   (~didComplete(b) /\ awt[b].exceptionPtr = coro[b].exitWith)
    /\ (lastOp.op \in {"await", "awaitResume"} /\ lastOp.a \in CoroAwtIds) =>
          /\ lastOp.out = "returned" => coro[lastOp.a].exitWith = NoExc
          /\ lastOp.out = "raised" => lastOp.e = coro[lastOp.a].exitWith
                                        /\ lastOp.e \in {HostExc, BodyExc}

\* a coro awaited another coro, whose body let the exception of a failed inner
\* awaitable propagate: the awaiter is resumed and gets that exception
C3_Witness ==
    /\ lastOp.op = "awaitResume" /\ lastOp.out = "raised" /\ lastOp.e = HostExc
    /\ lastOp.a \in CoroAwtIds
    /\ Finished(lastOp.a) /\ coro[lastOp.a].exitWith = HostExc
    /\ awt[lastOp.a].exceptionPtr = HostExc

\* ===================================================================== C4
\* control has come back, with a normal payload, to a coro suspended in await
AwaiterResumed(c) == ResumedAt(c, "await", "yielded") /\ coro[c].recv.type = "result"

\* C4: when an awaitable becomes done while a coro awaits it, every slot
\* connected to its done signal has run by the time the awaiter is resumed, and
\* every slot saw the awaitable done (completed or failed), as the awaiter does.
C4_CallbacksBeforeAwaiter ==
    /\ \A a \in AwtIds : awt[a].cbOk /\ awt[a].cbRuns <= awt[a].nslots
    /\ \A c \in CoroAwtIds :
          (AwaiterResumed(c) /\ awt[Top(c).a].st = "alive" /\ isDone(Top(c).a)) =>
             awt[Top(c).a].cbRuns = awt[Top(c).a].nslots

\* an awaiter resumed on a failed awaitable whose connected slot has run
C4_Witness ==
    \E c \in CoroAwtIds :
       /\ AwaiterResumed(c)
       /\ didFail(Top(c).a)
       /\ awt[Top(c).a].nslots = 1 /\ awt[Top(c).a].cbRuns = 1
       /\ lastOp.op = "Awaitable::done" /\ lastOp.out = "transfer" /\ lastOp.w = c

\* ===================================================================== C5
\* C5: when complete() or fail() is invoked through a completer on an awaitable
\* that records an awaiting coro, the call transfers to that coro, and when the
\* call returns to its caller that coro has left its await and is suspended
\* again or has ended.
C5_AwaiterRunsBeforeReturn ==
    /\ (lastOp.op = "Awaitable::done" /\ lastOp.pre = "completer" /\ lastOp.w # Null) =>
          /\ aborted = ""
          /\ lastOp.out = "transfer"
          /\ sCurrentCoro = lastOp.w
          /\ coro[lastOp.w].recv.type = "result"
    /\ (lastOp.op = "Completer" /\ lastOp.out = "returned") =>
          /\ sCurrentCoro # lastOp.w
          /\ awt[lastOp.a].awaitingCoro # lastOp.w
          /\ \/ coro[lastOp.w].st = "deleted"
             \/ ~coro[lastOp.w].isRunning
             \/ Top(lastOp.w).pc = "yielded"

\* ===================================================================== C6
\* C6: an action scheduled with scheduleWithTicket never runs when its ticket was
\* reset or destroyed, once or again, before the host loop dispatched the
\* WeakAction; it has run exactly once when the ticket was held at the dispatch;
\* letting go of the ticket after the dispatch changes nothing.
C6_TicketCancels ==
    \A n \in ActionIds :
       /\ hist[n].runs <= 1
       /\ hist[n].dropped => hist[n].runs = 0
       /\ (hist[n].dispatched /\ ~hist[n].dropped) => hist[n].runs = 1

\* one action was cancelled and its WeakAction dispatched without running it;
\* another ran once and its ticket was let go of afterwards
C6_Witness ==
    \E n, k \in ActionIds :
       /\ n # k
       /\ hist[n].dropped /\ hist[n].dispatched /\ hist[n].runs = 0
       /\ hist[k].dispatched /\ ~hist[k].dropped /\ hist[k].runs = 1 /\ cell[k] = "freed"

\* ===================================================================== C7
\* the coro that made the last call is still the current coro, in its body
StillIn(c, pc) == sCurrentCoro = c /\ Top(c).k = "body" /\ Top(c).pc = pc

\* C7: await on a completed awaitable returns at once: the caller is not
\* suspended, nothing is registered and control does not go to the master coro.
\* await on a failed awaitable raises the stored exception at once, and does so
\* again on every later call.
C7_AwaitOnDone ==
    /\ (lastOp.op = "await" /\ lastOp.pre = "completed") =>
          /\ aborted = "" /\ lastOp.out = "returned"
          /\ StillIn(lastOp.c, "run")
          /\ awt[lastOp.a].awaitingCoro = Null
    /\ (lastOp.op = "await" /\ lastOp.pre = "failed") =>
          /\ aborted = "" /\ lastOp.out = "raised"
          /\ StillIn(lastOp.c, "exc")
          /\ lastOp.e = awt[lastOp.a].exceptionPtr /\ lastOp.e # NoExc
          /\ Top(lastOp.c).e = lastOp.e
          /\ awt[lastOp.a].awaitingCoro = Null

\* a body that caught the exception of a failed awaitable awaits it again and
\* gets the same exception
C7_Witness ==
    /\ lastOp.op = "await" /\ lastOp.pre = "failed" /\ lastOp.out = "raised"
    /\ lastOp.e = HostExc
    /\ Top(lastOp.c).s = <<lastOp.a>>

\* await returned at once on a completed awaitable
C7_WitnessCompleted ==
    /\ lastOp.op = "await" /\ lastOp.pre = "completed" /\ lastOp.out = "returned"
    /\ didComplete(lastOp.a)

\* ===================================================================== C8
\* C8: whenever control returns with a normal payload to a coro at the yield of
\* await, the awaitable it awaits is done (the assertion after the yield
\* holds); if the awaitable failed, await raises the stored exception.
C8_ResumedOnlyWhenDone ==
    /\ \A c \in CoroAwtIds :
          AwaiterResumed(c) => (awt[Top(c).a].st = "alive" /\ isDone(Top(c).a))
    /\ aborted # "await: isDone()"
    /\ (lastOp.op = "awaitResume" /\ lastOp.out \in {"returned", "raised"}) =>
          /\ isDone(lastOp.a)
          /\ didFail(lastOp.a) => (lastOp.out = "raised" /\ lastOp.e = awt[lastOp.a].exceptionPtr)

\* ===================================================================== C9
\* a coro that has given up control inside a call of its body
Suspended(b) ==
    /\ coro[b].isRunning /\ sCurrentCoro # b
    /\ coro[b].stack # <<>> /\ Top(b).pc = "yielded"

C9_WitnessSuspended ==
    /\ lastOp.op = "startAsync" /\ lastOp.out = "returned"
    /\ Suspended(lastOp.a) /\ Top(lastOp.a).k = "await"
    /\ lastOp.c # MainCoro

\* ==================================================================== C10
\* position i of collection q holds an awaitable that is done
DoneAt(q, i) == q[i] # Null /\ awt[q[i]].st = "alive" /\ isDone(q[i])

\* C10: awaitAny on a collection with at least one awaitable returns the
\* position of the first element, in collection order, that is done at the
\* return; when an element is done at the call it returns at once, without
\* suspending the caller; a failed element's exception is never raised by it.
C10_FirstDoneInOrder ==
    /\ (lastOp.op \in {"awaitAny", "awaitAnyResume"} /\ lastOp.out = "returned") =>
          /\ lastOp.pos \in DOMAIN lastOp.s
          /\ DoneAt(lastOp.s, lastOp.pos)
          /\ \A j \in 1..(lastOp.pos - 1) : ~DoneAt(lastOp.s, j)
          /\ StillIn(lastOp.c, "run")
    /\ (lastOp.op = "awaitAny" /\ lastOp.pre = "done") =>
          (lastOp.out = "returned" /\ aborted = "")
    /\ lastOp.op \in {"awaitAny", "awaitAnyResume"} =>
          /\ lastOp.out # "raised"
          /\ lastOp.out = "unwound" => lastOp.e = ForcedUnwind

\* awaitAny suspended on two pending awaitables; the second one failed and the
\* call returns its position without raising
C10_Witness ==
    /\ lastOp.op = "awaitAnyResume" /\ lastOp.out = "returned"
    /\ Len(lastOp.s) = 2 /\ lastOp.pos = 2
    /\ lastOp.s[1] # Null /\ ~isDone(lastOp.s[1])
    /\ didFail(lastOp.s[2])

\* awaitAny called on a collection whose two elements are both done returns
\* the first position at once
C10_WitnessAtOnce ==
    /\ lastOp.op = "awaitAny" /\ lastOp.out = "returned" /\ lastOp.pos = 1
    /\ Len(lastOp.s) = 2 /\ DoneAt(lastOp.s, 1) /\ DoneAt(lastOp.s, 2)

\* ==================================================================== C11
\* C11 as stated: when awaitAny returns, the returned element is done and every
\* other element of the collection is not done.
C11_OthersNotDone ==
    (lastOp.op \in {"awaitAny", "awaitAnyResume"} /\ lastOp.out = "returned") =>
        /\ DoneAt(lastOp.s, lastOp.pos)
        /\ \A j \in DOMAIN lastOp.s :
              (j # lastOp.pos /\ lastOp.s[j] # Null) => ~isDone(lastOp.s[j])

\* C11 as amended: when awaitAny returns, the returned element is done and the
\* call has completed, failed, disarmed or destroyed no element: every other
\* element is in the state the scan found it in, so one that was armed is
\* still armed (and one that was done already is still done).
C11_OthersUntouched ==
    [][(lastOp'.op \in {"awaitAny", "awaitAnyResume"} /\ lastOp'.out = "returned") =>
          LET q == lastOp'.s IN
          /\ lastOp'.pos \in DOMAIN q
          /\ q[lastOp'.pos] # Null
          /\ awt'[q[lastOp'.pos]].didComplete \/ awt'[q[lastOp'.pos]].exceptionPtr # NoExc
          /\ \A j \in DOMAIN q : q[j] # Null =>
                /\ awt'[q[j]].st = awt[q[j]].st
                /\ awt'[q[j]].didComplete = awt[q[j]].didComplete
                /\ awt'[q[j]].exceptionPtr = awt[q[j]].exceptionPtr
                /\ awt'[q[j]].completerGuard = awt[q[j]].completerGuard]_vars

\* awaitAny suspended on two armed awaitables and returned the first one when
\* it completed; the second one is alive, armed and not done
C11_Witness ==
    /\ lastOp.op = "awaitAnyResume" /\ lastOp.out = "returned" /\ lastOp.pos = 1
    /\ Len(lastOp.s) = 2 /\ lastOp.s[2] # Null
    /\ awt[lastOp.s[2]].st = "alive" /\ ~isDone(lastOp.s[2])
    /\ awt[lastOp.s[2]].completerGuard # 0

\* ==================================================================== C12
\* C12: on an awaitable that is not done, takeCompleter succeeds exactly once:
\* the first call arms it and hands out its one completer, any further call
\* while it is not done fails the "completer already taken" assertion, changes
\* nothing and hands out no second completer.
C12_TakeCompleterOnce ==
    [][\A a \in AwtIds : (awt[a].st = "alive" /\ ~isDone(a)) =>
          /\ (lastOp'.op = "takeCompleter" /\ lastOp'.a = a) =>
                IF awt[a].completerGuard = 0
                THEN /\ lastOp'.out = "taken" /\ aborted' = ""
                     /\ awt[a].gen = 0 /\ awt'[a].gen = 1
                     /\ awt'[a].completerGuard = 1
                ELSE /\ lastOp'.out = "abort"
                     /\ aborted' = "takeCompleter: completer already taken"
                     /\ awt' = awt
          /\ awt'[a].st = "alive" => awt'[a].gen <= 1
          /\ awt'[a].gen # awt[a].gen => (lastOp'.op = "takeCompleter" /\ lastOp'.a = a)]_vars

\* a second takeCompleter on an armed, pending awaitable was rejected
C12_Witness ==
    /\ lastOp.op = "takeCompleter" /\ lastOp.out = "abort"
    /\ awt[lastOp.a].boundCoro = Null /\ ~isDone(lastOp.a)
    /\ awt[lastOp.a].gen = 1 /\ awt[lastOp.a].completerGuard = 1

\* ==================================================================== C13
\* frame i of coro c is ~Awaitable inside its fail(YieldForbidden::ptr()) call
DtorFailing(c, i) ==
    /\ i \in DOMAIN coro[c].stack
    /\ coro[c].stack[i].k = "dtor" /\ coro[c].stack[i].pc = "failing"

\* the awaitable was armed by a takeCompleter call made while it was pending
ArmedAtDestroy(a) == awt[a].gen = 1 /\ awt[a].late = 0

\* C13: the destructor of an awaitable that is armed, not done and has no bound
\* coro fails it with the yield-forbidden sentinel: while the destructor runs the
\* awaitable is failed with that sentinel, disarmed and has no awaiting coro;
\* every connected slot runs once, seeing it done, before the destructor ends;
\* and from the call to its end control stays in the destroying coro and no
\* other coro, the registered awaiter included, receives anything.
C13_DtorFailsArmed ==
    /\ [](\A c \in CoroIds : \A i \in DOMAIN coro[c].stack : DtorFailing(c, i) =>
            LET a == coro[c].stack[i].a IN
            /\ awt[a].st = "alive"
            /\ awt[a].exceptionPtr = YieldForbidden /\ ~awt[a].didComplete
            /\ awt[a].awaitingCoro = Null /\ awt[a].completerGuard = 0
            /\ sCurrentCoro = c)
    /\ [][/\ \A c \in CoroIds :
                ((\E i \in DOMAIN coro[c].stack : DtorFailing(c, i))
                    \/ (\E i \in DOMAIN coro'[c].stack : DtorFailing(c, i)')) =>
                   \A w \in CoroIds \ {c} : coro'[w] = coro[w]
          /\ (lastOp'.op = "destroy" /\ lastOp'.pre = "" /\ lastOp'.a # Null) =>
                LET a == lastOp'.a IN
                (awt[a].completerGuard # 0 /\ awt[a].boundCoro = Null /\ ~isDone(a)) =>
                    /\ lastOp'.out = "fail"
                    /\ awt'[a].exceptionPtr = YieldForbidden
                    /\ awt'[a].awaitingCoro = Null
                    /\ \E i \in DOMAIN coro'[lastOp'.c].stack :
                          /\ coro'[lastOp'.c].stack[i].k = "dtor"
                          /\ coro'[lastOp'.c].stack[i].pc = "failing"
                          /\ coro'[lastOp'.c].stack[i].a = a
          /\ (lastOp'.op = "destroy" /\ lastOp'.pre = "failed") =>
                LET a == lastOp'.a IN
                /\ awt[a].cbRuns = awt[a].nslots /\ awt[a].cbOk
                /\ awt[a].exceptionPtr = YieldForbidden
                /\ awt'[a].st = "destroyed"]_vars

\* the destructor of an armed awaitable that a coro awaits has run the connected
\* slot and is about to end; the awaiter is still suspended in its await
C13_Witness ==
    \E c \in CoroIds : \E p \in CoroAwtIds :
        /\ ResumedAt(c, "dtor", "failing")
        /\ ArmedAtDestroy(Top(c).a)
        /\ awt[Top(c).a].nslots = 1 /\ awt[Top(c).a].cbRuns = 1
        /\ awt[Top(c).a].exceptionPtr = YieldForbidden
        /\ coro[p].isRunning /\ coro[p].stack # <<>>
        /\ Top(p).k = "await" /\ Top(p).pc = "yielded" /\ Top(p).a = Top(c).a
        /\ coro[p].recv = NoRecv

\* ==================================================================== C14
\* C14: once an awaitable is destroyed every completer taken from it is expired,
\* and invoking one (complete or fail, called directly or from an action that
\* scheduleComplete / scheduleFail queued earlier, which holds a copy of the
\* completer) does nothing: no awaitable and no coro changes, control stays
\* where it is and nothing fails.
C14_ExpiredAfterDestroy ==
    /\ [](\A h \in Completers : awt[h[1]].st = "destroyed" => Expired(h))
    /\ [][(/\ lastOp'.op = "Completer" /\ lastOp'.a # Null /\ lastOp'.out # "returned"
           /\ awt[lastOp'.a].st = "destroyed" /\ sCurrentCoro = masterCoro) =>
                 /\ lastOp'.out = "noop"
                 /\ awt' = awt /\ coro' = coro
                 /\ sCurrentCoro' = sCurrentCoro
                 /\ sMasterCoroChain' = sMasterCoroChain
                 /\ aborted' = aborted]_vars

\* fail was invoked on the completer of an awaitable that was destroyed while a
\* coro awaited it: nothing happened, the coro is still suspended in its await
C14_Witness ==
    /\ lastOp.op = "Completer" /\ lastOp.out = "noop" /\ lastOp.e = HostExc
    /\ awt[lastOp.a].st = "destroyed"
    /\ aborted = ""
    /\ \E p \in CoroAwtIds :
          /\ coro[p].isRunning /\ coro[p].stack # <<>>
          /\ Top(p).k = "await" /\ Top(p).pc = "yielded" /\ Top(p).a = lastOp.a
          /\ coro[p].recv = NoRecv

\* ==================================================================== C15
\* the awaitables coro p is suspended on, in await or in awaitAny
AwaitingOn(p) ==
    IF coro[p].st = "alive" /\ coro[p].stack # <<>> /\ sCurrentCoro # p
       /\ Top(p).pc = "yielded" /\ Top(p).k \in {"await", "awaitAny"}
    THEN IF Top(p).k = "await" THEN {Top(p).a} ELSE Range(Top(p).s)
    ELSE {}

\* the destructor of awaitable a is running
BeingDestroyed(a) ==
    \E c \in CoroIds : \E i \in DOMAIN coro[c].stack :
        coro[c].stack[i].k = "dtor" /\ coro[c].stack[i].a = a

\* C15: at most one coro awaits an awaitable at a time and the registration of
\* the awaiter is kept: while a coro is suspended in await or awaitAny on an
\* awaitable that is not done (and not being destroyed), the awaitable records
\* that coro, so no second coro has registered on it.
C15_SingleAwaiter ==
    \A p \in CoroAwtIds : \A a \in AwaitingOn(p) :
        (awt[a].st = "alive" /\ ~isDone(a) /\ ~BeingDestroyed(a)) => awt[a].awaitingCoro = p

C16_WitnessChain ==
    /\ lastOp.op = "resume" /\ lastOp.out = "raised" /\ lastOp.e = HostExc
    /\ \E b \in CoroAwtIds :
          /\ coro[b].exitWith = "threw" /\ ~coro[b].isRunning
          /\ coro[b].parent = lastOp.c
          /\ \A d \in CoroAwtIds \ {b} : coro[d].st = "none"

\* ==================================================================== C17
\* the exception that ends the body of coro c, NoExc when the body returns: the
\* one propagating out of it, or the one the first transfer into c carried
EndsWith(c) ==
    IF coro[c].stack = <<>> THEN coro[c].recv.exc
    ELSE IF Top(c).pc = "exc" THEN Top(c).e ELSE NoExc

\* C17: when the body of a coro ends (a Coro::Func, or the wrapper startAsync
\* runs) the coro is marked not running and control goes to the parent it has
\* at that moment, an existing coro (if that coro has itself ended the
\* assertion of implYieldTo fails and nothing is resumed): after a return or a
\* ForcedUnwind the parent receives the value nullptr, the ForcedUnwind being
\* swallowed; after any other exception the parent receives that exception.
C17_BodyEndYieldsToParent ==
    [][lastOp'.op \in {"finalYield", "CoroFinish"} =>
          LET c == lastOp'.c
              par == coro[c].parent
              ex == EndsWith(c) IN
          /\ c = sCurrentCoro
          /\ coro[c].isRunning /\ ~coro'[c].isRunning
          /\ par # Null /\ par # c
          /\ coro[par].st = "alive"
          /\ IF coro[par].isRunning
             THEN /\ aborted' = ""
                  /\ sCurrentCoro' = par
                  /\ coro'[par].recv =
                        IF ex \in {NoExc, ForcedUnwind}
                        THEN [type |-> "result", exc |-> NoExc, val |-> Null]
                        ELSE [type |-> "exception", exc |-> ex, val |-> Null]
                  /\ \A d \in CoroIds \ {c, par} : coro'[d] = coro[d]
             ELSE /\ aborted' # ""
                  /\ sCurrentCoro' = sCurrentCoro]_vars

\* ==================================================================== C18
\* C18 as stated: an awaitable that is done has no awaiting coro registered, in
\* every state, also while its done-callbacks run and when it is destroyed.
C18_DoneHasNoAwaiter ==
    /\ \A a \in AwtIds : (awt[a].st = "alive" /\ isDone(a)) => awt[a].awaitingCoro = Null
    /\ aborted # "~Awaitable: awaitingCoro == nullptr"

\* the complete() / fail() call that made awaitable a done has not returned yet
Completing(a) ==
    \E c \in CoroIds : \E i \in DOMAIN coro[c].stack :
        /\ coro[c].stack[i].k = "complete" /\ coro[c].stack[i].a = a
        /\ coro[c].stack[i].v = "completer"

\* C18 as amended: a done awaitable has an awaiting coro registered only while
\* the Completer call that made it done is still in progress: complete() / fail()
\* mark it done first, run the done-callbacks and then resume the registered
\* awaiter, which clears the registration; once that call has returned, and
\* whenever a done awaitable is destroyed, no awaiting coro is registered.
C18_AwaiterOnlyWhileCompleting ==
    /\ \A a \in AwtIds :
          (awt[a].st = "alive" /\ isDone(a) /\ awt[a].awaitingCoro # Null) => Completing(a)
    /\ aborted # "~Awaitable: awaitingCoro == nullptr"

\* the done-callback of a completed awaitable has run while the coro awaiting
\* it is still registered and suspended
C18_Witness ==
    \E a \in AwtIds :
        /\ awt[a].st = "alive" /\ isDone(a) /\ awt[a].awaitingCoro # Null
        /\ awt[a].cbRuns = 1
        /\ ResumedAt(MainCoro, "complete", "emit") /\ Top(MainCoro).a = a
        /\ coro[awt[a].awaitingCoro].st = "alive"
        /\ Top(awt[a].awaitingCoro).k = "await" /\ Top(awt[a].awaitingCoro).a = a

\* ==================================================================== C19
\* C19 as stated: a done awaitable has no bound coro or a bound coro that is
\* not running, in every state, also while the done-callbacks of a startAsync
\* awaitable run.
C19_DoneBoundUnwound ==
    \A a \in AwtIds :
        (awt[a].st = "alive" /\ isDone(a) /\ awt[a].boundCoro # Null) =>
            ~coro[awt[a].boundCoro].isRunning

\* coro b is inside the wrapper startAsync gave it, after its body has ended:
\* in the complete() / fail() call of its own awaitable or just behind it
InWrapperTail(b) ==
    /\ coro[b].st = "alive" /\ coro[b].stack # <<>>
    /\ coro[b].stack[1].k = "lambda" /\ coro[b].stack[1].pc = "completing"
    /\ \A i \in DOMAIN coro[b].stack :
          i > 1 => (coro[b].stack[i].k = "complete" /\ coro[b].stack[i].a = b
                    /\ coro[b].stack[i].v = "lambda")

\* C19 as amended: a done awaitable has no bound coro, or a bound coro that is
\* not running, or a bound coro whose body has ended and which is the current
\* coro, still inside the startAsync wrapper that marked the awaitable done: the
\* done-callbacks of a startAsync awaitable run on the bound coro itself, before
\* the trampoline marks it not running.  The destructor of a done awaitable
\* finds its bound coro not running.
C19_DoneBoundFinished ==
    /\ \A a \in AwtIds :
          (awt[a].st = "alive" /\ isDone(a) /\ awt[a].boundCoro # Null) =>
              LET b == awt[a].boundCoro IN
              \/ ~coro[b].isRunning
              \/ sCurrentCoro = b /\ InWrapperTail(b)
    /\ aborted # "~Awaitable: !boundCoro->isRunning()"

\* the done-callback of a startAsync awaitable has run on its bound coro, which
\* is still marked running
C19_Witness ==
    \E a \in AwtIds :
        /\ awt[a].st = "alive" /\ isDone(a) /\ awt[a].boundCoro = a
        /\ coro[a].isRunning /\ sCurrentCoro = a
        /\ awt[a].cbRuns = 1
        /\ ResumedAt(a, "complete", "emit")

\* ==================================================================== C20
\* C20: once a coro that registered itself as awaiting coro in await or awaitAny
\* has been resumed and has left the call (by return, with the awaitable's
\* exception, or with the exception raised at the suspension point), no
\* awaitable records it as its awaiting coro.
C20_NoStaleAwaiter ==
    (/\ lastOp.op \in {"awaitResume", "awaitAnyResume"}
     /\ lastOp.out \in {"returned", "raised", "unwound"}) =>
        \A a \in AwtIds : awt[a].st = "alive" => awt[a].awaitingCoro # lastOp.c

\* ==================================================================== C21
\* the coro reached from c by following n parent links; Null when a link is
\* missing or leads to a deleted Coro
RECURSIVE ParentUp(_, _)
ParentUp(c, n) ==
    IF c = Null \/ n = 0 THEN c
    ELSE IF coro[c].st # "alive" THEN Null
    ELSE ParentUp(coro[c].parent, n - 1)

\* m is c or is reached from c by parent links
DescendsFrom(c, m) == \E n \in 0..(MaxCoro + 1) : ParentUp(c, n) = m

\* C21: in every state after initialization the current coro is the master coro
\* or a descendant of it: the master coro is reached from the current coro by
\* following parent links.
C21_CurrentBelowMaster == DescendsFrom(sCurrentCoro, masterCoro)

\* ==================================================================== C22
\* C22: a running coro is never destroyed.  Whenever the library deletes a coro
\* (the bound coro in ~Awaitable, the generator coro in ~YieldSequence) the coro
\* is not running, and the assertions that guard the deletion never fail,
\* provided the body of the coro lets ForcedUnwind propagate.
C22_DeletedNotRunning ==
    /\ [][\A b \in CoroAwtIds :
            (coro[b].st = "alive" /\ coro'[b].st = "deleted") =>
                (~coro[b].isRunning /\ ~coro'[b].isRunning)]_vars
    /\ [](aborted \in {"Coro::clear: can't clear a running coroutine",
                       "~Awaitable: !boundCoro->isRunning()"}
            => \E b \in CoroAwtIds : seq[b].swallowed)

\* ==================================================================== C23
\* the cached stacks that are large enough for a request of n
Fits(n) == {i \in DOMAIN pool.mStacks : pool.size[pool.mStacks[i]] >= n}

\* C23: obtain(minSize) returns, and removes from the pool, a cached stack of the
\* smallest cached size that is >= minSize (nothing is allocated); only when no
\* cached stack is large enough it allocates a new one, of size
\* max(minSize, platform minimum), and leaves the pool as it is.  Hence the coro
\* created right after a coro with the same stack-size requirement was destroyed
\* gets a recycled stack.
C23_SmallestFit ==
    [][lastOp'.op = "coroNew" =>
         LET n == lastOp'.w
             x == lastOp'.pos
             k == lastOp'.a IN
         /\ pool'.stack[k] = x /\ pool'.st[x] = "held" /\ pool'.size[x] >= n
         /\ IF Fits(n) # {}
            THEN /\ lastOp'.out = "reused"
                 /\ pool.st[x] = "cached" /\ pool'.size = pool.size
                 /\ \E i \in Fits(n) :
                       /\ pool.mStacks[i] = x
                       /\ \A j \in Fits(n) : pool.size[x] <= pool.size[pool.mStacks[j]]
                       /\ pool'.mStacks = MapErase(pool.mStacks, i)
                 /\ \A y \in StackIds \ {x} : pool'.st[y] = pool.st[y]
            ELSE /\ lastOp'.out = "allocated"
                 /\ pool.st[x] = "none"
                 /\ pool'.size[x] = IF n > MinimumStackSize THEN n ELSE MinimumStackSize
                 /\ pool'.mStacks = pool.mStacks
                 /\ \A y \in StackIds \ {x} :
                       pool'.st[y] = pool.st[y] /\ pool'.size[y] = pool.size[y]
         /\ pool.recycledFor = n => lastOp'.out = "reused"]_vars

\* obtain had two cached stacks that fit and took the smaller one, leaving the
\* larger in the pool
C23_Witness ==
    /\ lastOp.op = "coroNew" /\ lastOp.out = "reused"
    /\ pool.size[lastOp.pos] = MinimumStackSize
    /\ \E i \in DOMAIN pool.mStacks : pool.size[pool.mStacks[i]] > pool.size[lastOp.pos]
    /\ \E y \in StackIds : y < lastOp.pos /\ pool.size[y] > pool.size[lastOp.pos]

\* obtain found cached stacks, all too small, and allocated a new one
C23_WitnessMiss ==
    /\ lastOp.op = "coroNew" /\ lastOp.out = "allocated"
    /\ lastOp.w > MinimumStackSize
    /\ pool.mStacks # <<>>

\* ==================================================================== C24
\* hook h was connected while an earlier emission than the current one was in
\* progress and user code has not disconnected it
ConnectedWhileEmitting(h) ==
    /\ sig.hook[h].user = "connected"
    /\ sig.hook[h].madeIn # 0 /\ sig.hook[h].madeIn < sig.emitNo

\* the number of times the last emission invoked the slot of hook h
TimesCalled(h) == Cardinality({i \in DOMAIN sig.calls : sig.calls[i] = h})

\* a slot connected during an emission is not invoked by that emission
C24_NotInSameEmission ==
    (lastOp.op = "slot" /\ lastOp.out = "invoked") =>
        sig.hook[lastOp.a].madeIn # sig.emitNo

\* an emission that ran to its end has invoked, once, every slot that was
\* connected during an earlier emission and is still connected
C24_InLaterEmissions ==
    (lastOp.op = "emit" /\ lastOp.out = "returned" /\ lastOp.v = "complete") =>
        \A h \in HookIds : ConnectedWhileEmitting(h) => TimesCalled(h) = 1

\* between emissions every such slot is among the hooks the next emission
\* visits, and that emission is not refused
C24_ReadyForNext ==
    /\ (aborted = "" /\ ~sig.frame.on /\ sig.st = "alive") =>
          \A h \in HookIds :
              (sig.hook[h].user = "connected" /\ sig.hook[h].madeIn # 0) =>
                  \E i \in DOMAIN sig.mHooks : sig.mHooks[i] = h
    /\ aborted # "emitSignal: mHooksToAdd.empty()"

\* C24: a slot connected (connect or connectLite) while the signal is being
\* emitted is not invoked during that emission and is invoked by every later
\* emission until it is disconnected.
C24_ConnectedDuringEmission ==
    C24_NotInSameEmission /\ C24_InLaterEmissions /\ C24_ReadyForNext

\* ==================================================================== C25
\* a slot disconnected through its SignalConnection is not invoked afterwards
C25_NotAfterDisconnect ==
    (lastOp.op = "slot" /\ lastOp.out = "invoked") => lastOp.pre # "disconnected"

\* an emission that ran to its end has invoked the slots in connection order,
\* and once each slot that was connected before it started and still is
C25_OthersOncePerEmission ==
    (lastOp.op = "emit" /\ lastOp.out = "returned" /\ lastOp.v = "complete") =>
        /\ \A i, j \in DOMAIN sig.calls : i < j => sig.calls[i] < sig.calls[j]
        /\ \A h \in HookIds :
              (sig.hook[h].user = "connected" /\ sig.hook[h].madeIn # sig.emitNo) =>
                  TimesCalled(h) = 1

\* disconnectAll or ~Signal has been used in this run
UsedCancelAll == \E h \in HookIds : sig.hook[h].user = "canceled"

\* the slots that stay connected stay among the hooks: when only connections
\* disconnect slots, removing the disconnected hooks never fails and leaves every
\* connected slot that an emission has reached or will reach in mHooks
C25_OthersStay ==
    ~UsedCancelAll =>
        /\ aborted \notin {"trimCanceled: hook.isCanceled()",
                           "trimCanceled: mHooks.end() - pos == mNumCanceled"}
        /\ \A h \in HookIds :
              (sig.hook[h].user = "connected" /\ lastOp.op # "connect" /\ lastOp.op # "connectLite"
               /\ (sig.hook[h].madeIn = 0 \/ sig.hook[h].madeIn < sig.emitNo)
               /\ ~(\E j \in DOMAIN sig.mHooksToAdd : sig.mHooksToAdd[j] = h)) =>
                  \E i \in DOMAIN sig.mHooks : sig.mHooks[i] = h

\* C25: a slot disconnected through its SignalConnection while the signal is
\* being emitted, and not yet invoked in that emission, is invoked neither in the
\* rest of that emission nor in any later emission, while every slot that remains
\* connected is still invoked once per emission, in connection order.
C25_DisconnectedDuringEmission ==
    C25_NotAfterDisconnect /\ C25_OthersOncePerEmission /\ C25_OthersStay

\* ==================================================================== C26
\* a waiter whose awaitable still exists and is not done
LiveWaiter(w) == awt[w.completer[1]].st = "alive" /\ ~isDone(w.completer[1])

\* the awaitables that are done
DoneSet == {a \in AwtIds : awt[a].st = "alive" /\ isDone(a)}

\* the step in which user code called notifyOne on the condition
NotifyOneCalled == lastOp'.op = "notifyOne" /\ lastOp'.out \in {"empty", "none", "completed"}

\* C26: Condition.notifyOne completes exactly one pending wait: the earliest
\* registered waiter whose awaitable still exists and is not done, discarding the
\* expired waiters registered before it; all waiters registered after it stay
\* pending, and nothing is completed when no live waiter exists.
C26_NotifyOne ==
    [][NotifyOneCalled =>
          LET ws == cond["cv"].mWaiters
              live == {i \in DOMAIN ws : LiveWaiter(ws[i])} IN
          IF live = {}
          THEN /\ DoneSet' = DoneSet
               /\ lastOp'.out # "completed"
          ELSE LET i == CHOOSE x \in live : \A y \in live : x <= y IN
               /\ lastOp'.out = "completed"
               /\ DoneSet' = DoneSet \cup {ws[i].completer[1]}
               /\ awt'[ws[i].completer[1]].didComplete
               /\ cond'["cv"].mWaiters = SubSeq(ws, i + 1, Len(ws))
               /\ \A j \in (i + 1)..Len(ws) :
                     LiveWaiter(ws[j]) => /\ awt'[ws[j].completer[1]].st = "alive"
                                          /\ ~awt'[ws[j].completer[1]].didComplete
                                          /\ awt'[ws[j].completer[1]].exceptionPtr = NoExc]_vars

\* notifyOne has skipped an expired waiter, completed the next one and left a
\* later one pending
C26_Witness ==
    /\ lastOp.op = "notifyOne"
    /\ lastOp.out = "completed"
    /\ lastOp.s # <<>>
    /\ cond["cv"].mWaiters # <<>>
    /\ didComplete(lastOp.a)
    /\ \E i \in DOMAIN cond["cv"].mWaiters : LiveWaiter(cond["cv"].mWaiters[i])

\* notifyOne found only expired waiters and completed nothing
C26_WitnessNone == lastOp.op = "notifyOne" /\ lastOp.out = "none" /\ Len(lastOp.s) >= 2

\* ==================================================================== C27
\* the ids a notification has completed on the condition are in registration order
C27_Fifo ==
    \A i, j \in DOMAIN cond["cv"].done :
        i < j => cond["cv"].done[i] < cond["cv"].done[j]

\* a wait that notifyAll completes was registered before the call, and it is the
\* earliest of them that still can be completed
C27_OnlyEarlier ==
    (lastOp.op = "notifyAll" /\ lastOp.out = "completed") =>
        /\ \E i \in DOMAIN lastOp.s : lastOp.s[i] = lastOp.pos
        /\ lastOp.pos <= lastOp.w
        /\ cond["cv"].reg[lastOp.pos] = lastOp.a
        /\ didComplete(lastOp.a)
        /\ \A i \in DOMAIN cond["cv"].mWaiters : cond["cv"].mWaiters[i].id > lastOp.pos

\* when notifyAll returns, no wait registered before the call is left pending
C27_AllEarlier ==
    (lastOp.op = "notifyAll" /\ lastOp.out = "returned") =>
        \A i \in DOMAIN lastOp.s :
            LET a == cond["cv"].reg[lastOp.s[i]] IN
            /\ \A j \in DOMAIN cond["cv"].mWaiters : cond["cv"].mWaiters[j].id # lastOp.s[i]
            /\ awt[a].st = "alive" => didComplete(a)

\* C27: Condition.notifyAll completes every wait that was registered before the
\* call, in FIFO registration order; a wait registered while the notification is
\* in progress is not completed by that notifyAll, so the loop of notifyAll runs
\* at most once for each wait registered before the call.
C27_NotifyAll == C27_Fifo /\ C27_OnlyEarlier /\ C27_AllEarlier

\* notifyAll completed two waits and returned, leaving pending a wait that an
\* awoken coroutine registered in the meantime
C27_Witness ==
    /\ lastOp.op = "notifyAll"
    /\ lastOp.out = "returned"
    /\ Len(lastOp.s) >= 2
    /\ \A i \in DOMAIN lastOp.s : \E j \in DOMAIN cond["cv"].done : cond["cv"].done[j] = lastOp.s[i]
    /\ cond["cv"].mWaiters # <<>>
    /\ cond["cv"].mWaiters[1].id > lastOp.w
    /\ LiveWaiter(cond["cv"].mWaiters[1])

\* ==================================================================== C28
\* C28: in every reachable state a BoundedQueue holds at most maxSize values, for
\* every interleaving of asyncPush and asyncPop calls and waiter wake-ups: a
\* waiting push is released only when the queue has room and a waiting pop only
\* when the queue is non-empty (the assertions in their done-callbacks hold).
C28_Bounded ==
    /\ queue.st = "alive" => Len(queue.mQueue) <= queue.mMaxSize
    /\ aborted \notin {"asyncPush: mQueue.size() < mMaxSize", "asyncPop: !mQueue.empty()"}

\* a waiting push was released by a pop into a queue that is full again
C28_Witness ==
    /\ lastOp.op = "callback"
    /\ lastOp.v = "push"
    /\ queue.mMaxSize > 0
    /\ Len(queue.mQueue) = queue.mMaxSize
    /\ queue.got # <<>>

\* a waiting pop was released by a push and has emptied the queue
C28_WitnessPop ==
    /\ lastOp.op = "callback"
    /\ lastOp.v = "pop"
    /\ queue.mQueue = <<>>
    /\ queue.got # <<>>

\* ==================================================================== C29
\* asyncPush on a queue that is not full inserts the value at once; on a full
\* queue it inserts nothing and returns a pending awaitable
C29_PushNow ==
    [][(lastOp'.op = "asyncPush" /\ lastOp'.out \in {"empty", "none", "completed", "pending"}) =>
          IF Len(queue.mQueue) < queue.mMaxSize
          THEN /\ queue'.mQueue = Append(queue.mQueue, lastOp'.w)
               /\ lastOp'.out # "pending"
          ELSE /\ queue'.mQueue = queue.mQueue
               /\ lastOp'.out = "pending"
               /\ awt[lastOp'.a].st = "none"
               /\ awt'[lastOp'.a].st = "alive"
               /\ ~awt'[lastOp'.a].didComplete
               /\ awt'[lastOp'.a].exceptionPtr = NoExc]_vars

\* the awaitable an immediate asyncPush returns is already completed
C29_ReturnsCompleted ==
    (lastOp.op = "asyncPush" /\ lastOp.out = "returned") =>
        /\ awt[lastOp.a].st = "alive"
        /\ didComplete(lastOp.a)

\* the awaitables of waiting pushes
PushAwts == {a \in WaitIds : queue.cb[a].k = "push"}

\* a waiting push is completed only by a pop that has made room
C29_AfterPop ==
    [][\A a \in PushAwts :
          (awt[a].st = "alive" /\ ~awt[a].didComplete /\ awt'[a].didComplete) =>
              /\ Len(queue'.mQueue) < queue.mMaxSize
              /\ Len(queue.got) < Len(queue'.got)]_vars

\* the value of a waiting push is in the queue when the coro that awaited the
\* awaitable is resumed by its completion
C29_ValueInQueue ==
    (lastOp.op = "awaitResume" /\ lastOp.out = "returned" /\ lastOp.a \in PushAwts) =>
        \E i \in DOMAIN queue.mQueue : queue.mQueue[i] = queue.cb[lastOp.a].value

\* the value of a waiting push has been inserted when a coro finds the awaitable completed
C29_ValueInserted ==
    (lastOp.op \in {"await", "awaitResume"} /\ lastOp.out = "returned" /\ lastOp.a \in PushAwts) =>
        queue.cb[lastOp.a].ran

C29_WitnessNow == lastOp.op = "asyncPush" /\ lastOp.out = "returned" /\ didComplete(lastOp.a)

\* ==================================================================== C30
\* the coros suspended in await() on the awaitable a; an awaitable that is being
\* destroyed has dropped its awaiter
Awaiters(a) ==
    IF BeingDestroyed(a) THEN {}
    ELSE {w \in CoroAwtIds : a \in AwaitingOn(w) /\ Top(w).k = "await"}

\* the final yield of a start_async coro whose body has ended
FinalYieldStep(b) ==
    /\ coro[b].st = "alive"
    /\ coro[b].stack # <<>>
    /\ Top(b).k = "lambda"
    /\ Top(b).pc = "completing"
    /\ sCurrentCoro = b
    /\ lastOp'.op = "CoroFinish"

\* the final yield is made by a coro already marked not running, and it resumes
\* the coro that awaits the awaitable, or the master coro when none does
C30_FinalYieldResumes ==
    [][\A b \in CoroAwtIds :
          FinalYieldStep(b) =>
              /\ lastOp'.out = "transfer"
              /\ ~coro'[b].isRunning
              /\ sCurrentCoro' # b
              /\ IF Awaiters(b) # {} THEN sCurrentCoro' \in Awaiters(b)
                                     ELSE sCurrentCoro' = masterCoro]_vars

\* complete() / fail() called by the body wrapper does not transfer to any coro
C30_NotFromComplete ==
    (lastOp.op = "Awaitable::done" /\ lastOp.out \in {"transfer", "abort"}) => lastOp.pre # "lambda"

\* C30: when the body of a start_async coro ends while some coro is awaiting its
\* awaitable, the awaiter is resumed exactly once, by the bound coro's final yield
\* after the bound coro has been marked not running, and not from inside the
\* complete()/fail() call made by the body wrapper; when no coro is awaiting, that
\* final yield lands on the master coro.
C30_AwaiterResumedByFinalYield == C30_FinalYieldResumes /\ []C30_NotFromComplete

\* ==================================================================== C31
\* an awaitable somebody can complete: a completer was taken from it at some
\* point, or a coro is bound to it
Armed(a) == awt[a].gen > 0 \/ awt[a].completerGuard # 0 \/ awt[a].boundCoro # Null

\* C31: await on an awaitable that is neither done nor armed (no completer was
\* ever taken and no coro is bound) is rejected as a programmer error instead of
\* registering the caller as awaiting coro and suspending it.
C31_AwaitNeedsArmed ==
    (lastOp.op = "await" /\ lastOp.out = "suspended" /\ awt[lastOp.a].st = "alive") =>
        Armed(lastOp.a)


\* ------------------------------------------------------------------ C32
\* the live PushMasterCoro objects of coro c: one per frame of a function that
\* holds a guard across a transfer (startAsync, the unwinding block of
\* ~Awaitable, notifyOne, notifyAll)
GuardFrames(c) ==
    {i \in DOMAIN coro[c].stack :
        \/ coro[c].stack[i].k \in {"notifyOne", "notifyAll"}
        \/ coro[c].stack[i].k = "startAsync" /\ coro[c].stack[i].pc = "yielded"
        \/ coro[c].stack[i].k = "dtor" /\ coro[c].stack[i].pc = "unwinding"}

\* the guards that pushed an entry (mPushedCoro # nullptr)
PushingGuards(c) == {i \in GuardFrames(c) : coro[c].stack[i].p # Null}

\* the entries of c in the chain, the main coro's first entry apart
Entries(chain, c) == {i \in 2..Len(chain) : chain[i] = c}

RemoveAt(chain, i) == SubSeq(chain, 1, i - 1) \o SubSeq(chain, i + 1, Len(chain))

\* what ~PushMasterCoro of a pushing guard of c may make of the chain: the entry
\* the guard pushed is gone, the others keep their order
AfterPop(chain, c) ==
    {RemoveAt(chain, i) : i \in {j \in Entries(chain, c) : \A k \in (j + 1)..Len(chain) : chain[k] # c}}

\* every entry after the first belongs to a live pushing guard of the coro it
\* names, and the main coro is first
C32_EntriesAreGuards ==
    /\ sMasterCoroChain # <<>>
    /\ sMasterCoroChain[1] = MainCoro
    /\ \A c \in CoroIds :
          /\ \A i \in PushingGuards(c) : coro[c].stack[i].p = c
          /\ Cardinality(Entries(sMasterCoroChain, c)) = Cardinality(PushingGuards(c))

\* the chain changes only by the running coro's guards: an entry of it appended,
\* its last entry removed, or (a guard destroyed and another made in one step) both
C32_ChainSteps ==
    LET c == sCurrentCoro IN
    \/ sMasterCoroChain' = sMasterCoroChain
    \/ sMasterCoroChain' = Append(sMasterCoroChain, c) /\ masterCoro # c
    \/ sMasterCoroChain' \in AfterPop(sMasterCoroChain, c)
    \/ \E x \in AfterPop(sMasterCoroChain, c) :
          sMasterCoroChain' = Append(x, c) /\ x[Len(x)] # c

\* a guard made by the master pushes nothing and pops nothing; after a guard is
\* made its maker is the master
C32_GuardSteps ==
    \A c \in CoroIds :
        LET g  == Cardinality(GuardFrames(c))
            g2 == Cardinality(GuardFrames(c))'
            p  == Cardinality(PushingGuards(c))
            p2 == Cardinality(PushingGuards(c))'
        IN  /\ (g2 = g + 1 /\ masterCoro = c) => (p2 = p /\ sMasterCoroChain' = sMasterCoroChain)
            /\ (g2 = g + 1 /\ masterCoro # c) => (p2 = p + 1 /\ sMasterCoroChain' = Append(sMasterCoroChain, c))
            /\ (g2 = g + 1) => masterCoro' = c
            /\ (g2 = g - 1 /\ p2 = p) => sMasterCoroChain' = sMasterCoroChain
            /\ (g2 = g - 1 /\ p2 = p - 1) => sMasterCoroChain' \in AfterPop(sMasterCoroChain, c)

\* the master coro changes only when the running coro makes or destroys a
\* pushing guard: while the most recent live guard stays, so does the master
C32_MasterKept ==
    masterCoro' # masterCoro =>
        \E c \in CoroIds :
            /\ c = sCurrentCoro
            /\ c \in {masterCoro, masterCoro'}
            /\ PushingGuards(c)' # PushingGuards(c)

\* a guard was destroyed while an entry pushed after it is still in the chain:
\* coro c was suspended in startAsync, its guard alive, when d began to destroy
\* c's awaitable under a pushing guard; unwound, c has destroyed its guard
C32_Witness ==
    /\ aborted = ""
    /\ \E c \in CoroAwtIds : \E d \in CoroIds \ {c} :
          /\ \E i \in DOMAIN coro[c].stack :
                /\ coro[c].stack[i].k = "startAsync"
                /\ coro[c].stack[i].pc = "unwind"
                /\ coro[c].stack[i].p = c
          /\ \E j \in PushingGuards(d) :
                coro[d].stack[j].k = "dtor" /\ coro[d].stack[j].a = c
          /\ Entries(sMasterCoroChain, d) # {}

\* C32: while a push-master guard of coro C is the most recent live guard the
\* master coro is C; destroying a guard removes exactly the entry it pushed,
\* also from the middle of the chain, and leaves the other entries in their
\* order with the main coro first; a guard made by the master pushes and pops
\* nothing
C32_PushMasterCoro ==
    /\ [](C32_EntriesAreGuards)
    /\ [][C32_ChainSteps /\ C32_GuardSteps /\ C32_MasterKept]_vars


\* ------------------------------------------------------------------ C33
\* the actions invoked so far are the first ones posted, each once, in posting
\* order and on the main coro; the others are still queued, in posting order
C33_OnceInOrder ==
    /\ \A i \in DOMAIN idle.ran : idle.ran[i].id = i /\ idle.ran[i].on = MainCoro
    /\ Len(idle.ran) + Len(idle.sIdleActions) = idle.posted
    /\ \A j \in DOMAIN idle.sIdleActions : idle.sIdleActions[j] = Len(idle.ran) + j

\* when a transfer that landed on the main coro returns to the code that runs
\* the host loop, no action is queued
C33_DrainedBeforeLoop ==
    (/\ aborted = ""
     /\ lastOp.op = "resume" /\ lastOp.c = MainCoro /\ lastOp.out = "returned"
     /\ Top(MainCoro).k = "loop") =>
        idle.sIdleActions = <<>>

\* at most one drain loop, and so at most one idle action, is on main's stack
C33_NoNesting ==
    /\ Cardinality({i \in DOMAIN coro[MainCoro].stack :
                       coro[MainCoro].stack[i].pc = "draining"}) <= 1
    /\ Cardinality({i \in DOMAIN coro[MainCoro].stack :
                       coro[MainCoro].stack[i].k = "action"}) <= 1
    /\ \A c \in CoroAwtIds : \A i \in DOMAIN coro[c].stack :
          coro[c].stack[i].k # "action" /\ coro[c].stack[i].pc # "draining"

\* as long as no idle action has thrown, the host loop never sees a queued action
C33_DrainedUnlessThrown == idle.threw \/ C33_DrainedBeforeLoop

\* C33: every idle action posted from a non-main coro runs exactly once, on the
\* main coro, in posting order, the next time a transfer lands on the main coro
\* and before the host loop gets control back; actions posted during a drain run
\* in that drain, and drains never nest
C33_IdleActions == C33_OnceInOrder /\ C33_DrainedBeforeLoop /\ C33_NoNesting


\* ==================================================================== C34
\* C34: after Signal.disconnectAll(), called outside or during an emission, no
\* slot that was connected before the call is invoked by the rest of that
\* emission or by a later emission: a slot the emission loop invokes is never
\* one that disconnectAll has canceled
C34_NotAfterDisconnectAll ==
    (lastOp.op = "slot" /\ lastOp.out = "invoked") => lastOp.pre # "canceled"


\* ==================================================================== C38
\* the entry assertions of emitSignal and the assertions of trimCanceled
SignalAssertions ==
    {"emitSignal: mNumCanceled == 0", "emitSignal: mHooksToAdd.empty()",
     "trimCanceled: hook.isCanceled()", "trimCanceled: mHooks.end() - pos == mNumCanceled"}

\* an emission that got past its entry assertions found no canceled hook left
\* among mHooks
C38_StartsTrimmed ==
    (lastOp.op = "emit" /\ lastOp.out = "started") =>
        /\ sig.mHooksToAdd = <<>>
        /\ sig.mNumCanceled = 0
        /\ \A i \in DOMAIN sig.mHooks : ~IsCanceled(sig.hook[sig.mHooks[i]])

\* C38: at the start of every emission the signal has no pending added slots and
\* no untrimmed cancellations: the entry assertions of emitSignal hold and
\* trimCanceled removes exactly mNumCanceled hooks, after any sequence of connect,
\* connectLite, disconnect, disconnectAll and earlier emissions, also emissions
\* in which a slot threw or connected or disconnected slots
C38_EmissionStartsClean == aborted \notin SignalAssertions /\ C38_StartsTrimmed

\* the same without disconnectAll and ~Signal
C38_WithoutCancelAll == UsedCancelAll \/ C38_EmissionStartsClean


\* ==================================================================== C35
\* the assertions of Completer::complete and of notifyAll
C35_AssertionsHold ==
    aborted \notin {"Completer: currentCoro() == masterCoro()",
                    "notifyAll: mWaiters.back().id == maxId",
                    "notifyAll: mWaiters.front().id <= maxId"}

\* no waiter id has its completer invoked twice
C35_AtMostOnce ==
    \A i, j \in DOMAIN cond["cv"].done : i # j => cond["cv"].done[i] # cond["cv"].done[j]

\* a step in which a notifyOne or notifyAll call invokes a completer
NotifyCompletes == lastOp'.op \in {"notifyOne", "notifyAll"} /\ lastOp'.out = "completed"

\* an awaitable of asyncWait becomes completed only in such a step, as the
\* awaitable of the completer invoked; it fails only in its own destructor
C35_OnlyByNotify ==
    \A a \in WaitIds :
        /\ (awt[a].st = "alive" /\ ~didComplete(a) /\ awt'[a].st = "alive" /\ didComplete(a)') =>
               (NotifyCompletes /\ lastOp'.a = a /\ ~isDone(a))
        /\ (awt[a].st = "alive" /\ ~didFail(a) /\ awt'[a].st = "alive" /\ didFail(a)') =>
               (lastOp'.op = "destroy" /\ lastOp'.a = a /\ awt'[a].exceptionPtr = YieldForbidden)

\* the completer is invoked by the running coro, which is the master coro then
C35_CompleterOnMaster ==
    NotifyCompletes =>
        /\ lastOp'.c = sCurrentCoro
        /\ masterCoro' = lastOp'.c

\* a notify that completed a wait was called by a coro that was not the master,
\* while the notify call of another coro is still in progress
C35_Witness ==
    /\ aborted = ""
    /\ lastOp.op \in {"notifyOne", "notifyAll"} /\ lastOp.out = "completed"
    /\ \E i \in DOMAIN coro[lastOp.c].stack :
          /\ coro[lastOp.c].stack[i].k = lastOp.op
          /\ coro[lastOp.c].stack[i].a = lastOp.a
          /\ coro[lastOp.c].stack[i].p = lastOp.c
    /\ \E d \in CoroIds \ {lastOp.c} : \E j \in DOMAIN coro[d].stack :
          coro[d].stack[j].k \in {"notifyOne", "notifyAll"}

\* C35: every awaitable returned by Condition.asyncWait is completed at most once
\* and only by a notifyOne or notifyAll call on that condition, also when notify
\* is called from a coro awoken by an enclosing notify or from a coro that is not
\* the master; the completer is invoked with the current coro equal to the master
\* coro and the assertions of notifyAll on waiter ids hold
C35_CompletedByNotify ==
    /\ [](C35_AssertionsHold /\ C35_AtMostOnce)
    /\ [][C35_OnlyByNotify /\ C35_CompleterOnMaster]_vars


\* ==================================================================== C36
\* the step in which operator++ (of begin or of ++it) on sequence b returns or
\* raises in the iterating coro; not the step in which the iterating coro, a
\* generator itself, is forced to unwind by the destructor of its own sequence
Incremented(b) ==
    /\ lastOp'.op = "incremented" /\ lastOp'.a = b /\ lastOp'.out # "abort"
    /\ lastOp'.e # ForcedUnwind

\* what made the iterating coro run again is the generator of b: a value or an
\* exception it yielded, its return, or an exception that left its body
C36_FromGenerator ==
    \A b \in CoroAwtIds : Incremented(b) =>
        /\ lastOp.c = b
        /\ lastOp.op \in {"yieldTo", "finalYield"}
        /\ lastOp.out = "transfer"

\* the iterator then points at the value yielded, is at end after the return of
\* the body, and is at end with the exception raised from the increment
C36_Outcome ==
    \A b \in CoroAwtIds : (Incremented(b) /\ lastOp.c = b) =>
        LET c == lastOp'.c IN
        IF lastOp.pre = "exception"
        THEN /\ lastOp'.out = "raised"
             /\ seq'[b].it = "end"
             /\ coro'[c].stack[Len(coro'[c].stack)].pc = "exc"
             /\ coro'[c].stack[Len(coro'[c].stack)].e = lastOp.e
        ELSE IF lastOp.op = "finalYield"
        THEN lastOp'.out = "end" /\ seq'[b].it = "end" /\ ~coro[b].isRunning
        ELSE /\ lastOp'.out = "value"
             /\ seq'[b].it = "at"
             /\ seq'[b].currentValue = lastOp.w
             /\ coro[b].isRunning

\* an increment resumes the generator of its sequence
C36_ResumesGenerator ==
    (lastOp'.op \in {"begin", "increment"} /\ lastOp'.out = "transfer") =>
        sCurrentCoro' = lastOp'.a

\* C36: iterating a YieldSequence from begin() visits exactly the values the
\* generator body yields, in order, one resumption of the generator per
\* increment; the iterator equals end() exactly when the body has returned; an
\* exception that escapes the generator is raised from the increment and leaves
\* the iterator at end
C36_Iteration == [][C36_FromGenerator /\ C36_Outcome /\ C36_ResumesGenerator]_vars


\* every increment and every ~YieldSequence in progress was called by the coro
\* that constructed the sequence, which is the parent of its generator
ByConstructor ==
    \A c \in CoroIds : \A i \in DOMAIN coro[c].stack :
        coro[c].stack[i].k \in {"increment", "seqDtor"} => coro[coro[c].stack[i].a].parent = c

\* the same while every sequence is iterated by the coro that constructed it
C36_ByConstructor == [][ByConstructor => (C36_FromGenerator /\ C36_Outcome)]_vars


\* ==================================================================== C37
\* a takeCompleter call that returns a completer is the first one made on its
\* awaitable
C37_TakenOnce ==
    (lastOp.op = "takeCompleter" /\ lastOp.out = "taken") => awt[lastOp.a].gen = 1

\* no completer of a done awaitable is live: its guard is gone
C37_NoLiveCompleterWhenDone ==
    \A a \in AwtIds : (awt[a].st = "alive" /\ isDone(a)) => awt[a].completerGuard = 0

\* C37: take_completer is rejected whenever a completer was taken at any earlier
\* point of the awaitable's lifetime, also after the awaitable was completed or
\* failed through it, so no live completer can be obtained for a done awaitable
C37_NoRetake == C37_TakenOnce /\ C37_NoLiveCompleterWhenDone


\* ==================================================================== C39
\* the values delivered so far followed by the values in the queue
Passed == queue.got \o queue.mQueue

\* a step inserts at most one value, behind all values inserted before, and a
\* pop delivers the value at the front: delivered values are a prefix of the
\* inserted ones, in insertion order
C39_FifoStep ==
    /\ \/ Passed' = Passed
       \/ /\ Passed' = Append(Passed, lastOp'.w)
          /\ queue'.got = queue.got
          /\ \/ lastOp'.op = "asyncPush" /\ lastOp'.pre = "room"
             \/ lastOp'.op = "callback" /\ lastOp'.v = "push"
    /\ \/ queue'.got = queue.got
       \/ /\ queue.mQueue # <<>>
          /\ queue'.got = Append(queue.got, Head(queue.mQueue))
          /\ queue'.mQueue = Tail(queue.mQueue)

\* no value is in the queue or delivered twice, and every value is one that an
\* asyncPush call was given
C39_NoDuplicates ==
    /\ \A i, j \in DOMAIN Passed : i # j => Passed[i] # Passed[j]
    /\ \A i \in DOMAIN Passed : Passed[i] \in 1..queue.pushes

\* the value of a waiting push is inserted by its callback only, which runs only
\* when the awaitable is completed: a waiting push whose awaitable was destroyed
\* first never inserts its value
C39_WaitingPush ==
    \A a \in WaitIds :
        queue.cb[a].k = "push" =>
            /\ (queue.cb[a].ran /\ awt[a].st = "alive") => didComplete(a)
            /\ ~queue.cb[a].ran => \A i \in DOMAIN Passed : Passed[i] # queue.cb[a].value

\* values pushed out of call order: a waiting push was destroyed, a later push
\* went in and has been delivered after an earlier one
C39_Witness ==
    /\ aborted = ""
    /\ Len(queue.got) >= 2
    /\ \E a \in WaitIds :
          /\ queue.cb[a].k = "push" /\ ~queue.cb[a].ran
          /\ awt[a].st # "alive"
          /\ \E i \in DOMAIN queue.got : queue.got[i] > queue.cb[a].value

\* C39: a BoundedQueue is FIFO without loss or duplication: the values delivered
\* by pops are a prefix of the values inserted by pushes in insertion order, each
\* inserted value is delivered at most once, and a waiting push whose awaitable
\* is destroyed before room becomes available never inserts its value
C39_Fifo ==
    /\ [](C39_NoDuplicates /\ C39_WaitingPush)
    /\ [][C39_FifoStep]_vars




\* ==================================================================== C40
\* a queue operation, a notifyOne of the queue's conditions or a completion with
\* its callbacks is in progress on some coro
InQueueOp ==
    \E c \in CoroIds : \E i \in DOMAIN coro[c].stack :
        coro[c].stack[i].k \in {"asyncOp", "notifyOne", "complete"}

\* the waiters of condition k whose awaitable still exists and is not done
LiveWaiters(k) == {i \in DOMAIN cond[k].mWaiters : LiveWaiter(cond[k].mWaiters[i])}

\* between operations no pop waits while the queue holds a value and no push
\* waits while the queue has room
C40_NoneLeftWaiting ==
    (aborted = "" /\ queue.st = "alive" /\ ~InQueueOp) =>
        /\ queue.mQueue # <<>> => LiveWaiters("mCondPoppable") = {}
        /\ HasRoom(queue) => LiveWaiters("mCondPushable") = {}

\* the awaitable of the longest waiting live waiter of condition k
FirstWaiting(k) ==
    LET i == CHOOSE x \in LiveWaiters(k) : \A y \in LiveWaiters(k) : x <= y IN
    cond[k].mWaiters[i].completer[1]

\* a push that goes in completes the longest waiting pop, a pop that takes a
\* value the longest waiting push, in that same call
C40_NextCompletes ==
    /\ (/\ \/ (lastOp'.op = "asyncPush" /\ lastOp'.pre = "room" /\ lastOp'.out # "returned")
            \/ (lastOp'.op = "callback" /\ lastOp'.v = "push")
        /\ LiveWaiters("mCondPoppable") # {}) =>
           /\ lastOp'.out = "completed"
           /\ lastOp'.a = FirstWaiting("mCondPoppable")
           /\ awt'[lastOp'.a].didComplete
    /\ (/\ \/ (lastOp'.op = "asyncPop" /\ lastOp'.pre = "values" /\ lastOp'.out # "returned")
            \/ (lastOp'.op = "callback" /\ lastOp'.v = "pop")
        /\ LiveWaiters("mCondPushable") # {}) =>
           /\ lastOp'.out = "completed"
           /\ lastOp'.a = FirstWaiting("mCondPushable")
           /\ awt'[lastOp'.a].didComplete

\* between operations the callback of every completed waiting operation has run:
\* the consumer has its value, the producer's value is in the queue
C40_Served ==
    (aborted = "" /\ ~InQueueOp) =>
        \A a \in WaitIds :
            (queue.cb[a].k # "none" /\ awt[a].st = "alive" /\ didComplete(a)) => queue.cb[a].ran

\* a push has just released the longer waiting of two waiting pops
C40_Witness ==
    /\ aborted = ""
    /\ lastOp.op = "asyncPush" /\ lastOp.out = "completed"
    /\ queue.cb[lastOp.a].k = "pop" /\ didComplete(lastOp.a)
    /\ \E i \in LiveWaiters("mCondPoppable") :
          cond["mCondPoppable"].mWaiters[i].completer[1] > lastOp.a

\* C40: a BoundedQueue never loses a wakeup: whenever no queue operation is in
\* progress there is no live waiting pop while the queue holds a value and no live
\* waiting push while the queue has room, so a waiting consumer is completed by
\* the next push and a waiting producer by the next pop, in FIFO order of waiting
C40_NoLostWakeup ==
    /\ [](C40_NoneLeftWaiting /\ C40_Served)
    /\ [][C40_NextCompletes]_vars
====
